---- MODULE Spec2Model ----
(***************************************************************************)
(* A model of the AkashicRecords agent client (arac): the configuration    *)
(* store (core/config_loader.py), the hierarchy composer (agent.py,        *)
(* core/coordinator.py, core/agent_factory.py), the directory rule index   *)
(* (integrations/akashic_mcp.py), the model routing table                  *)
(* (integrations/multi_model.py) and the project health validator          *)
(* (utils/validation.py).                                                  *)
(*                                                                         *)
(* Python values are modelled as follows.  None is the string None.  A     *)
(* dict with string keys is a set of <<key, value>> pairs or a record; an  *)
(* ordered dict whose order matters (ProjectConfig.agents) is a sequence   *)
(* of [name, spec] records.  A call that may raise yields an outcome       *)
(* record whose exc field names the exception class ("" when it returned). *)
(* A member of a JSON document is a tagged record [t, v]: t = "val" (the   *)
(* member is present and of the declared type, v is its value), "missing"  *)
(* (the key is absent) or "bad" (present, but a value pydantic rejects).   *)
(***************************************************************************)
EXTENDS Integers, Sequences, FiniteSets, TLC

VARIABLES
    layout,     \* the project root on disk: "no_root", "no_arclient",
                \* "arclient_is_file" or "arclient_dir"
    doc,        \* the document at <root>/.arclient/config.json
    mem,        \* the ProjectConfig object handed to save_config
    saved,      \* outcome of the last save_config call
    loaded,     \* outcome of the last load_project_config call
    ops,        \* the calls made so far on the configuration store
    env,        \* os.environ: ARAC_PROJECT_PATH and the two fallback limits
    cwd,        \* the process's working directory: "ok" or "deleted"
    tmpl,       \* the prompt template files: [arc, abs], each "missing",
                \* "readable" or "unreadable"
    ext,        \* the units whose construction the external runtime rejects
    result,     \* outcome of the last call made on the composer
    readme,     \* README.md of each directory: [exists, lines]
    rulemd,     \* the directories that hold a Rule.md
    cache,      \* AkashicMCPTools._directory_rules_cache: [hit, rec] per directory
    calls,      \* the calls made so far on the directory rule index
    last,       \* outcome of the last call made on the directory rule index
    models,     \* ModelManager.model_configs["models"]
    router,     \* ModelManager.router: [built, model_list]
    picked,     \* the last get_model_for_agent call and what it returned
    side,       \* the project files the validator looks at besides the
                \* document: [prompts, targets, env_file, env_example]
    report      \* outcome of the last call made on the validator

storeVars == <<layout, doc, mem, saved, loaded, ops>>
composeVars == <<env, cwd, tmpl, ext, result>>
indexVars == <<readme, rulemd, cache, calls, last>>
routeVars == <<models, router, picked>>
healthVars == <<side, report>>
vars == <<storeVars, composeVars, indexVars, routeVars, healthVars>>

None == "<None>"

(***************************************************************************)
(* Bounds of the model.                                                    *)
(***************************************************************************)
MaxOps == 3
MaxCalls == 3
MaxModels == 7

(***************************************************************************)
(* JSON members.                                                           *)
(***************************************************************************)
Val(x) == [t |-> "val", v |-> x]
Missing(ph) == [t |-> "missing", v |-> ph]
Bad(ph) == [t |-> "bad", v |-> ph]

DictGet(d, k, default) ==
    IF \E p \in d : p[1] = k THEN (CHOOSE p \in d : p[1] = k)[2] ELSE default

Min(S) == CHOOSE x \in S : \A y \in S : x <= y

(***************************************************************************)
(* Values of the open bags (custom_config: Dict[str, Any]).  Each tag is a *)
(* class of Python values: a str, a list, a tuple, a set, float('nan'),    *)
(* a str holding a lone surrogate.                                         *)
(***************************************************************************)
PyVals == {"str", "list", "tuple", "set", "nan", "surrogate_str"}

\* json.dump raises TypeError for a value it cannot serialise.
JsonSerializable(v) == v # "set"

\* f.write on a file opened with encoding='utf-8' raises UnicodeEncodeError
\* for a lone surrogate (json.dump is called with ensure_ascii=False).
Utf8Encodable(v) == v # "surrogate_str"

\* What json.load gives back for what json.dump wrote: a tuple is written
\* as a JSON array and read as a list.
JsonImage(v) == IF v = "tuple" THEN "list" ELSE v

\* Python's == on two distinct objects of the class: nan is not equal to nan.
PyEq(a, b) == a = b /\ a # "nan"

(***************************************************************************)
(* ConfigSchema: core/config_loader.py, the pydantic models.               *)
(***************************************************************************)
DefaultModel == "openai/gpt-4o"

\* AgentConfig(**agent_data) for a mapping that validates: defaults fill
\* the absent members.
AgentConfig(raw) ==
    [type               |-> raw.type.v,
     enabled            |-> IF raw.enabled.t = "val" THEN raw.enabled.v ELSE TRUE,
     model              |-> IF raw.model.t = "val" THEN raw.model.v ELSE DefaultModel,
     prompt_template    |-> IF raw.prompt_template.t = "val"
                            THEN raw.prompt_template.v ELSE None,
     tools              |-> IF raw.tools.t = "val"
                            THEN raw.tools.v ELSE <<"mcp_filesystem">>,
     permissions        |-> IF raw.permissions.t = "val"
                            THEN raw.permissions.v ELSE <<"read">>,
     target_directories |-> IF raw.target_directories.t = "val"
                            THEN raw.target_directories.v ELSE <<>>,
     custom_config      |-> IF raw.custom_config.t = "val"
                            THEN raw.custom_config.v ELSE {}]

\* The exception AgentConfig(**agent_data) raises, "" when it validates.
\* ** on a value that is not a mapping is a TypeError; type is required;
\* any member of the wrong type is a pydantic ValidationError.
AgentConfigExc(raw) ==
    IF raw.shape # "mapping" THEN "TypeError"
    ELSE IF \/ raw.type.t # "val"
            \/ raw.enabled.t = "bad"
            \/ raw.model.t = "bad"
            \/ raw.prompt_template.t = "bad"
            \/ raw.tools.t = "bad"
            \/ raw.permissions.t = "bad"
            \/ raw.target_directories.t = "bad"
            \/ raw.custom_config.t = "bad"
         THEN "ValidationError"
         ELSE ""

\* MCPConfig: filesystem defaults to {"enabled": True}.
DefaultFilesystem ==
    [hasEnabled |-> TRUE, enabled |-> TRUE, hasTools |-> FALSE, tools |-> <<>>]

MCPConfig(raw) ==
    [filesystem |-> IF raw.t = "val" /\ raw.fs.t = "val"
                    THEN raw.fs.v ELSE DefaultFilesystem]

MCPConfigExc(raw) ==
    IF raw.t = "scalar" THEN "TypeError"
    ELSE IF raw.t = "val" /\ raw.fs.t = "bad" THEN "ValidationError"
    ELSE ""

DefaultWorkflow ==
    [default_agent |-> "coordinator",
     delegation_strategy |-> "llm_driven",
     enable_parallel_execution |-> TRUE]

WorkflowConfig(raw) == IF raw.t = "val" THEN raw.v ELSE DefaultWorkflow

WorkflowConfigExc(raw) ==
    IF raw.t = "scalar" THEN "TypeError"
    ELSE IF raw.t = "bad" THEN "ValidationError"
    ELSE ""

\* ProjectConfig(**config_data): project and agents are required.
ProjectConfigExc(d) ==
    IF d.project.t # "val" \/ d.agents.t # "val" THEN "ValidationError" ELSE ""

NoConfig ==
    [project |-> {}, agents |-> <<>>,
     mcp_tools |-> [filesystem |-> DefaultFilesystem],
     workflow |-> DefaultWorkflow]

(***************************************************************************)
(* ConfigStore: load_project_config, create_default_config, save_config.   *)
(***************************************************************************)
ProjectName == "proj"

Returned(x) == [kind |-> "returned", exc |-> "", val |-> x]
Raised(e, ph) == [kind |-> "raised", exc |-> e, val |-> ph]
NotCalled(ph) == [kind |-> "none", exc |-> "", val |-> ph]

\* create_default_config with the base unit's permissions left to the
\* schema default.
create_default_config_schema_permissions ==
    [project |-> {<<"name", ProjectName>>, <<"type", "general">>},
     agents |-> <<
        [name |-> "coordinator",
         spec |-> [type |-> "akashic_coordinator", enabled |-> TRUE,
                   model |-> "openai/gpt-4o",
                   prompt_template |-> "prompts/coordinator.md",
                   tools |-> <<"mcp_filesystem">>,
                   permissions |-> <<"read", "write", "create">>,
                   target_directories |-> <<>>, custom_config |-> {}]],
        [name |-> "base_agent",
         spec |-> [type |-> "akashic_base", enabled |-> TRUE,
                   model |-> "openai/gpt-4o",
                   prompt_template |-> "prompts/base_agent.md",
                   tools |-> <<"mcp_filesystem">>,
                   permissions |-> <<"read">>,
                   target_directories |-> <<>>, custom_config |-> {}]] >>,
     mcp_tools |-> [filesystem |-> DefaultFilesystem],
     workflow |-> DefaultWorkflow]

create_default_config ==
    [project |-> {<<"name", ProjectName>>, <<"type", "general">>},
     agents |-> <<
        [name |-> "coordinator",
         spec |-> [type |-> "akashic_coordinator", enabled |-> TRUE,
                   model |-> "openai/gpt-4o",
                   prompt_template |-> "prompts/coordinator.md",
                   tools |-> <<"mcp_filesystem">>,
                   permissions |-> <<"read", "write", "create">>,
                   target_directories |-> <<>>, custom_config |-> {}]],
        [name |-> "base_agent",
         spec |-> [type |-> "akashic_base", enabled |-> TRUE,
                   model |-> "openai/gpt-4o",
                   prompt_template |-> "prompts/base_agent.md",
                   tools |-> <<"mcp_filesystem">>,
                   permissions |-> <<"read", "write", "create">>,
                   target_directories |-> <<>>, custom_config |-> {}]] >>,
     mcp_tools |-> [filesystem |-> DefaultFilesystem],
     workflow |-> DefaultWorkflow]

\* config_path.exists()
ConfigPathExists(lay, d) == lay = "arclient_dir" /\ d.kind # "absent"

\* The first agents entry, in document order, whose conversion raises.
AgentsLoopExc(entries) ==
    LET failing == {i \in 1..Len(entries) : AgentConfigExc(entries[i].spec) # ""}
    IN  IF failing = {} THEN ""
        ELSE AgentConfigExc(entries[Min(failing)].spec)

\* The body of the try block of load_project_config on a parsed document:
\* the exception that leaves it, "" when ProjectConfig(**config_data) is built.
ParseExc(d) ==
    IF d.kind = "unreadable" THEN "PermissionError"
    ELSE IF d.kind = "garbage" THEN "JSONDecodeError"
    ELSE IF d.kind = "nonobject" THEN "TypeError"
    ELSE IF d.agents.t = "bad" THEN "AttributeError"
    ELSE IF d.agents.t = "val" /\ AgentsLoopExc(d.agents.v) # ""
         THEN AgentsLoopExc(d.agents.v)
    ELSE IF MCPConfigExc(d.mcp_tools) # "" THEN MCPConfigExc(d.mcp_tools)
    ELSE IF WorkflowConfigExc(d.workflow) # "" THEN WorkflowConfigExc(d.workflow)
    ELSE ProjectConfigExc(d)

ProjectConfig(d) ==
    [project |-> d.project.v,
     agents |-> [i \in 1..Len(d.agents.v) |->
                    [name |-> d.agents.v[i].name,
                     spec |-> AgentConfig(d.agents.v[i].spec)]],
     mcp_tools |-> MCPConfig(d.mcp_tools),
     workflow |-> WorkflowConfig(d.workflow)]

\* except (json.JSONDecodeError, ValidationError) as e: raise ValueError(...)
LoadCaught(e) == e \in {"JSONDecodeError", "ValidationError"}

load_project_config(lay, d) ==
    IF ~ConfigPathExists(lay, d) THEN Returned(create_default_config)
    ELSE IF ParseExc(d) = "" THEN Returned(ProjectConfig(d))
    ELSE IF LoadCaught(ParseExc(d)) THEN Raised("ValueError", NoConfig)
    ELSE Raised(ParseExc(d), NoConfig)

\* config.model_dump() followed by json.dump: the document that reaches the
\* disk when every value can be written.  Every member is present.
DumpUnit(spec) ==
    [shape              |-> "mapping",
     type               |-> Val(spec.type),
     enabled            |-> Val(spec.enabled),
     model              |-> Val(spec.model),
     prompt_template    |-> Val(spec.prompt_template),
     tools              |-> Val(spec.tools),
     permissions        |-> Val(spec.permissions),
     target_directories |-> Val(spec.target_directories),
     custom_config      |-> Val({<<p[1], JsonImage(p[2])>> : p \in spec.custom_config})]

JsonDoc(config) ==
    [kind      |-> "object",
     project   |-> Val(config.project),
     agents    |-> Val([i \in 1..Len(config.agents) |->
                        [name |-> config.agents[i].name,
                         spec |-> DumpUnit(config.agents[i].spec)]]),
     mcp_tools |-> [t |-> "val", fs |-> Val(config.mcp_tools.filesystem)],
     workflow  |-> Val(config.workflow)]

\* The exception json.dump(config_dict, f, ...) raises while it writes, ""
\* when the whole document is written: the first value, in document order,
\* that json cannot serialise (TypeError) or the file cannot encode.
ValueDumpExc(v) ==
    IF ~JsonSerializable(v) THEN "TypeError"
    ELSE IF ~Utf8Encodable(v) THEN "UnicodeEncodeError"
    ELSE ""

UnitDumpExc(spec) ==
    IF \E p \in spec.custom_config : ValueDumpExc(p[2]) # ""
    THEN ValueDumpExc((CHOOSE p \in spec.custom_config : ValueDumpExc(p[2]) # "")[2])
    ELSE ""

JsonDumpExc(config) ==
    LET failing == {i \in 1..Len(config.agents) :
                        UnitDumpExc(config.agents[i].spec) # ""}
    IN  IF failing = {} THEN ""
        ELSE UnitDumpExc(config.agents[Min(failing)].spec)

EmptyDoc(k) ==
    [kind      |-> k,
     project   |-> Missing({}),
     agents    |-> Missing(<<>>),
     mcp_tools |-> [t |-> "missing", fs |-> Missing(DefaultFilesystem)],
     workflow  |-> Missing(DefaultWorkflow)]

\* save_config without the mkdir call: open() fails when .arclient is absent.
save_config_without_mkdir(config, lay, d) ==
    IF lay = "no_root" \/ lay = "no_arclient"
    THEN [exc |-> "FileNotFoundError", layout |-> lay, doc |-> d]
    ELSE IF lay = "arclient_is_file"
    THEN [exc |-> "NotADirectoryError", layout |-> lay, doc |-> d]
    ELSE IF JsonDumpExc(config) # ""
    THEN [exc |-> JsonDumpExc(config), layout |-> "arclient_dir",
          doc |-> EmptyDoc("garbage")]
    ELSE [exc |-> "", layout |-> "arclient_dir", doc |-> JsonDoc(config)]

\* save_config(config, project_root): [exc, layout, doc] after the call.
\* arclient_path.mkdir(exist_ok=True) has no parents=True and raises when
\* the root is missing or .arclient is a regular file; the file is opened
\* with 'w' before json.dump runs, so a failing dump leaves a truncated
\* document behind.
save_config(config, lay, d) ==
    IF lay = "no_root"
    THEN [exc |-> "FileNotFoundError", layout |-> lay, doc |-> d]
    ELSE IF lay = "arclient_is_file"
    THEN [exc |-> "FileExistsError", layout |-> lay, doc |-> d]
    ELSE IF JsonDumpExc(config) # ""
    THEN [exc |-> JsonDumpExc(config), layout |-> "arclient_dir",
          doc |-> EmptyDoc("garbage")]
    ELSE [exc |-> "", layout |-> "arclient_dir", doc |-> JsonDoc(config)]

\* pydantic's BaseModel.__eq__ on two ProjectConfig objects: the fields are
\* compared with Python's ==, dicts irrespective of their order.
AgentConfigEq(a, b) ==
    /\ a.type = b.type
    /\ a.enabled = b.enabled
    /\ a.model = b.model
    /\ a.prompt_template = b.prompt_template
    /\ a.tools = b.tools
    /\ a.permissions = b.permissions
    /\ a.target_directories = b.target_directories
    /\ {p[1] : p \in a.custom_config} = {p[1] : p \in b.custom_config}
    /\ \A p \in a.custom_config :
          PyEq(p[2], DictGet(b.custom_config, p[1], None))

AgentNames(config) == {config.agents[i].name : i \in 1..Len(config.agents)}

AgentsGet(config, name) ==
    config.agents[CHOOSE i \in 1..Len(config.agents) : config.agents[i].name = name].spec

ProjectConfigEq(a, b) ==
    /\ a.project = b.project
    /\ AgentNames(a) = AgentNames(b)
    /\ \A n \in AgentNames(a) : AgentConfigEq(AgentsGet(a, n), AgentsGet(b, n))
    /\ a.mcp_tools = b.mcp_tools
    /\ a.workflow = b.workflow

(***************************************************************************)
(* The documents and configurations the store is exercised on.             *)
(***************************************************************************)
RawMapping(ty) ==
    [shape              |-> "mapping",
     type               |-> ty,
     enabled            |-> Missing(TRUE),
     model              |-> Missing(""),
     prompt_template    |-> Missing(""),
     tools              |-> Missing(<<>>),
     permissions        |-> Missing(<<>>),
     target_directories |-> Missing(<<>>),
     custom_config      |-> Missing({})]

\* A unit entry that is not a mapping, e.g. "base_agent": "on".
RawScalar == [RawMapping(Missing("")) EXCEPT !.shape = "scalar"]

RawCoordinator ==
    [RawMapping(Val("akashic_coordinator")) EXCEPT
        !.prompt_template = Val("prompts/coordinator.md")]

RawBase == RawMapping(Val("akashic_base"))

Entry(n, raw) == [name |-> n, spec |-> raw]

ObjectDoc(project, agents, mcp, wf) ==
    [kind |-> "object", project |-> project, agents |-> agents,
     mcp_tools |-> mcp, workflow |-> wf]

GoodProject == Val({<<"name", ProjectName>>})
McpMissing == [t |-> "missing", fs |-> Missing(DefaultFilesystem)]
McpScalar == [t |-> "scalar", fs |-> Missing(DefaultFilesystem)]
McpFs(fs) == [t |-> "val", fs |-> fs]
FsDisabled == [DefaultFilesystem EXCEPT !.enabled = FALSE]

StoreAgents ==
    { Missing(<<>>), Bad(<<>>), Val(<<>>),
      Val(<<Entry("coordinator", RawCoordinator)>>),
      Val(<<Entry("coordinator", RawCoordinator), Entry("base_agent", RawBase)>>),
      Val(<<Entry("base_agent", RawBase)>>),
      Val(<<Entry("coordinator", RawCoordinator), Entry("base_agent", RawScalar)>>),
      Val(<<Entry("coordinator", RawCoordinator),
            Entry("base_agent", RawMapping(Missing("")))>>),
      Val(<<Entry("coordinator", RawCoordinator),
            Entry("base_agent", RawMapping(Bad("")))>>),
      Val(<<Entry("coordinator", RawCoordinator),
            Entry("base_agent", [RawBase EXCEPT !.enabled = Bad(TRUE)])>>),
      Val(<<Entry("coordinator", RawCoordinator),
            Entry("base_agent", [RawBase EXCEPT !.enabled = Val(FALSE)])>>),
      Val(<<Entry("coordinator", RawCoordinator),
            Entry("base_agent", [RawBase EXCEPT !.tools = Bad(<<>>)])>>),
      Val(<<Entry("coordinator", RawCoordinator),
            Entry("base_agent", [RawBase EXCEPT !.permissions = Bad(<<>>)])>>),
      Val(<<Entry("base_agent", RawMapping(Missing(""))),
            Entry("meeting_agent", RawScalar)>>) }

StoreDocs ==
    {EmptyDoc("garbage"), EmptyDoc("nonobject")}
    \cup {ObjectDoc(GoodProject, a, McpMissing, Missing(DefaultWorkflow)) :
            a \in StoreAgents}
    \cup {ObjectDoc(p, Val(<<Entry("coordinator", RawCoordinator)>>), m, w) :
            p \in {GoodProject, Missing({}), Bad({})},
            m \in {McpMissing, McpScalar, McpFs(Bad(DefaultFilesystem)),
                   McpFs(Val(FsDisabled))},
            w \in {Missing(DefaultWorkflow), Bad(DefaultWorkflow)}}

\* The projects on disk: a document exists only inside a .arclient directory.
StoreDisks ==
    {<<l, EmptyDoc("absent")>> :
        l \in {"no_root", "no_arclient", "arclient_is_file", "arclient_dir"}}
    \cup {<<"arclient_dir", d>> : d \in StoreDocs}

MemBase(en, cc) ==
    [type |-> "akashic_base", enabled |-> en, model |-> DefaultModel,
     prompt_template |-> None, tools |-> <<"mcp_filesystem">>,
     permissions |-> <<"read">>, target_directories |-> <<"Meetings">>,
     custom_config |-> cc]

MemCustom == {{}} \cup {{<<"k", v>>} : v \in PyVals}

\* Valid configurations: every typed field holds a value of its type.
MemConfigs ==
    {[project |-> {<<"name", ProjectName>>},
      agents |-> a,
      mcp_tools |-> [filesystem |-> fs],
      workflow |-> DefaultWorkflow] :
        a \in {<<>>, <<create_default_config.agents[1]>>}
              \cup {<<create_default_config.agents[1],
                      Entry("base_agent", MemBase(en, cc))>> :
                        en \in BOOLEAN, cc \in MemCustom},
        fs \in {DefaultFilesystem,
                [hasEnabled |-> TRUE, enabled |-> FALSE, hasTools |-> TRUE,
                 tools |-> <<"read_file">>]}}

(***************************************************************************)
(* Project discovery: utils/project_discovery.py.                          *)
(***************************************************************************)
\* Path(env_path).exists()
PathExists(path) == path = "/proj"

\* The exception discover_project_root raises, "" when it returns the root:
\* Path.cwd() raises FileNotFoundError when the working directory is gone.
discover_project_root_exc(e, c) ==
    IF e.ARAC_PROJECT_PATH # None /\ e.ARAC_PROJECT_PATH # ""
       /\ PathExists(e.ARAC_PROJECT_PATH)
    THEN ""
    ELSE IF c = "deleted" THEN "FileNotFoundError" ELSE ""

(***************************************************************************)
(* PromptResolver: the _load_prompt_template functions.                    *)
(***************************************************************************)
\* AgentFactory._load_prompt_template: the text found (named after the place
\* it was read from), None when nothing is found or the read fails.
load_prompt_template(template_path, t) ==
    IF template_path = None \/ template_path = "" THEN None
    ELSE IF t.arc = "readable" THEN "arclient_text"
    ELSE IF t.arc = "unreadable" THEN None
    ELSE IF t.abs = "readable" THEN "standalone_text"
    ELSE None

(***************************************************************************)
(* The filesystem tool binding: integrations/mcp_filesystem.py.            *)
(***************************************************************************)
DefaultAllowedTools ==
    <<"read_file", "write_file", "list_directory", "create_directory",
      "search_files", "get_file_info">>

\* allowed is [none, list]: Optional[List[str]].
create_filesystem_toolset(root_path, allowed) ==
    [root_path   |-> root_path,
     tool_filter |-> IF allowed.none THEN DefaultAllowedTools ELSE allowed.list]

(***************************************************************************)
(* UnitFactory: core/agent_factory.py.                                     *)
(***************************************************************************)
\* Python's call binding: more positional arguments than parameters is a
\* TypeError.
CallExc(nargs, nparams) == IF nargs > nparams THEN "TypeError" ELSE ""

\* def __init__(self, config: ProjectConfig): the parameters after self.
AgentFactoryInitParams == 1

AgentFactory(config) ==
    [config       |-> config,
     project_root |-> DictGet(config.project, "root_path", ".")]

agent_creators == {"akashic_base", "meeting_minutes", "template_manager", "custom"}

\* if self.config.mcp_tools.filesystem['enabled']: ... tools.append(toolset)
\* filesystem.get('tools', []) hands an empty list, not None, when the
\* document gives no allow-list.
FactoryToolsExc(self) ==
    IF ~self.config.mcp_tools.filesystem.hasEnabled THEN "KeyError" ELSE ""

FactoryTools(self) ==
    LET fs == self.config.mcp_tools.filesystem
    IN  IF fs.enabled
        THEN <<create_filesystem_toolset(
                    self.project_root,
                    [none |-> FALSE,
                     list |-> IF fs.hasTools THEN fs.tools ELSE <<>>])>>
        ELSE <<>>

Instruction(src, listed) == [src |-> src, listed |-> listed]

Unit(name, instruction, tools, sub_agents) ==
    [name |-> name, instruction |-> instruction, tools |-> tools,
     sub_agents |-> sub_agents]

NoUnit == Unit("", Instruction("", <<>>), <<>>, <<>>)

\* The exception a creator raises: the KeyError of the 'enabled' lookup, or
\* an error of the external runtime's constructors (Agent, LiteLlm,
\* MCPToolset) for the units in fails.
CreatorExc(self, name, fails) ==
    IF FactoryToolsExc(self) # "" THEN FactoryToolsExc(self)
    ELSE IF name \in fails THEN "RuntimeError"
    ELSE ""

\* _create_base_agent, _create_meeting_agent, _create_template_agent and
\* _create_custom_agent: the unit built when nothing raises.
Creator(self, name, agent_config, t) ==
    LET text == load_prompt_template(agent_config.prompt_template, t)
    IN  Unit(name,
             Instruction(IF text = None \/ text = ""
                         THEN "default_" \o agent_config.type ELSE text, <<>>),
             FactoryTools(self), <<>>)

\* create_agent without the try block around the creator call.
create_agent_unguarded(self, name, agent_config, t, fails) ==
    IF agent_config.type \notin agent_creators
    THEN [some |-> FALSE, unit |-> NoUnit, exc |-> ""]
    ELSE IF CreatorExc(self, name, fails) # ""
    THEN [some |-> FALSE, unit |-> NoUnit, exc |-> CreatorExc(self, name, fails)]
    ELSE [some |-> TRUE, unit |-> Creator(self, name, agent_config, t), exc |-> ""]

\* AgentFactory.create_agent: [some, unit, exc], some = FALSE for None; exc
\* names the exception that escapes, the creator call being wrapped in
\* try/except Exception.
create_agent(self, name, agent_config, t, fails) ==
    IF agent_config.type \notin agent_creators
    THEN [some |-> FALSE, unit |-> NoUnit, exc |-> ""]
    ELSE IF CreatorExc(self, name, fails) # ""
    THEN [some |-> FALSE, unit |-> NoUnit, exc |-> ""]
    ELSE [some |-> TRUE, unit |-> Creator(self, name, agent_config, t), exc |-> ""]

(***************************************************************************)
(* HierarchyComposer: core/coordinator.py.                                 *)
(***************************************************************************)
\* self.factory = AgentFactory(config, project_root): the arguments passed.
CoordinatorFactoryArgs == 2

AkashicCoordinatorExc == CallExc(CoordinatorFactoryArgs, AgentFactoryInitParams)

AkashicCoordinator(config, project_root) ==
    [config |-> config, project_root |-> project_root,
     factory |-> AgentFactory(config)]

RECURSIVE SubAgentsFrom(_, _, _, _)
SubAgentsFrom(self, i, t, fails) ==
    IF i > Len(self.config.agents) THEN <<>>
    ELSE LET a == self.config.agents[i]
             rest == SubAgentsFrom(self, i + 1, t, fails)
             made == create_agent(self.factory, a.name, a.spec, t, fails)
         IN  IF a.name = "coordinator" THEN rest
             ELSE IF a.spec.enabled /\ made.some THEN <<made.unit>> \o rest
             ELSE rest

create_sub_agents(self, t, fails) == SubAgentsFrom(self, 1, t, fails)

RECURSIVE FormatFrom(_, _)
FormatFrom(config, i) ==
    IF i > Len(config.agents) THEN <<>>
    ELSE IF config.agents[i].name # "coordinator" /\ config.agents[i].spec.enabled
         THEN <<config.agents[i].name>> \o FormatFrom(config, i + 1)
         ELSE FormatFrom(config, i + 1)

\* _format_agent_list: the units the generated prompt enumerates.
format_agent_list(self) == FormatFrom(self.config, 1)

\* AkashicCoordinator._load_prompt_template: the generated default instead
\* of None.
coordinator_load_prompt_template(self, template_path, t) ==
    IF template_path = None \/ template_path = ""
    THEN Instruction("default_coordinator", format_agent_list(self))
    ELSE IF t.arc = "readable" THEN Instruction("arclient_text", <<>>)
    ELSE IF t.arc = "unreadable"
         THEN Instruction("default_coordinator", format_agent_list(self))
    ELSE IF t.abs = "readable" THEN Instruction("standalone_text", <<>>)
    ELSE Instruction("default_coordinator", format_agent_list(self))

\* The attributes an AgentConfig object has: its declared fields.
AgentConfigFields ==
    {"type", "enabled", "model", "prompt_template", "tools", "permissions",
     "target_directories", "custom_config"}

\* coordinator_config.<name> on a pydantic model.
GetAttrExc(name) == IF name \in AgentConfigFields THEN "" ELSE "AttributeError"

\* The exception create_agent_hierarchy raises, "" when it returns.
create_agent_hierarchy_exc(self) ==
    IF "coordinator" \notin AgentNames(self.config) THEN "ValueError"
    ELSE IF GetAttrExc("max_output_tokens") # "" THEN GetAttrExc("max_output_tokens")
    ELSE GetAttrExc("max_context_tokens")

create_agent_hierarchy(self, t, fails) ==
    Unit("akashic_coordinator",
         coordinator_load_prompt_template(
            self, AgentsGet(self.config, "coordinator").prompt_template, t),
         <<>>,
         create_sub_agents(self, t, fails))

(***************************************************************************)
(* The entry point: agent.py.                                              *)
(***************************************************************************)
\* if fallback_max_output: ... int(fallback_max_output)
IntExc(text) == IF text \in {"4096", "8192"} THEN "" ELSE "ValueError"

FallbackExc(e) ==
    IF e.ARAC_FALLBACK_MAX_OUTPUT_TOKENS \notin {None, ""}
       /\ IntExc(e.ARAC_FALLBACK_MAX_OUTPUT_TOKENS) # ""
    THEN IntExc(e.ARAC_FALLBACK_MAX_OUTPUT_TOKENS)
    ELSE IF e.ARAC_FALLBACK_MAX_CONTEXT_TOKENS \notin {None, ""}
    THEN IntExc(e.ARAC_FALLBACK_MAX_CONTEXT_TOKENS)
    ELSE ""

\* A fallback unit that carries the filesystem binding of the working
\* directory.
FallbackUnitWithTools ==
    Unit("akashic_records_fallback", Instruction("fallback_text", <<>>),
         <<create_filesystem_toolset(".", [none |-> TRUE, list |-> <<>>])>>, <<>>)

FallbackUnit ==
    Unit("akashic_records_fallback", Instruction("fallback_text", <<>>), <<>>, <<>>)

\* The try block of create_root_agent: the exception that leaves it.
TryExc(lay, d, e, c) ==
    LET config == load_project_config(lay, d)
    IN  IF discover_project_root_exc(e, c) # "" THEN discover_project_root_exc(e, c)
        ELSE IF config.kind = "raised" THEN config.exc
        ELSE IF AkashicCoordinatorExc # "" THEN AkashicCoordinatorExc
        ELSE create_agent_hierarchy_exc(AkashicCoordinator(config.val, "/proj"))

\* arg holds the arguments of the calls that take some.
Outcome(call, kind, exc, caught, val) ==
    [call |-> call, kind |-> kind, exc |-> exc, caught |-> caught, val |-> val,
     arg |-> <<>>]

\* create_root_agent: caught is the exception the except clause reports.
create_root_agent(lay, d, e, c, t, fails) ==
    LET caught == TryExc(lay, d, e, c)
    IN  IF caught = ""
        THEN Outcome("create_root_agent", "returned", "", "",
                create_agent_hierarchy(
                    AkashicCoordinator(load_project_config(lay, d).val, "/proj"),
                    t, fails))
        ELSE IF FallbackExc(e) # ""
        THEN Outcome("create_root_agent", "raised", FallbackExc(e), caught, NoUnit)
        ELSE Outcome("create_root_agent", "returned", "", caught, FallbackUnit)

\* AkashicCoordinator(config, project_path).create_agent_hierarchy() called
\* on a loaded configuration, outside any try block.
build_hierarchy(config, t, fails) ==
    IF AkashicCoordinatorExc # ""
    THEN Outcome("create_agent_hierarchy", "raised", AkashicCoordinatorExc, "", NoUnit)
    ELSE IF create_agent_hierarchy_exc(AkashicCoordinator(config, "/proj")) # ""
    THEN Outcome("create_agent_hierarchy", "raised",
                 create_agent_hierarchy_exc(AkashicCoordinator(config, "/proj")),
                 "", NoUnit)
    ELSE Outcome("create_agent_hierarchy", "returned", "", "",
                 create_agent_hierarchy(AkashicCoordinator(config, "/proj"), t, fails))

\* test_config.py, test_agent_creation(config): AkashicCoordinator(config),
\* then coordinator._load_prompt_template(...), inside a try block whose
\* except clause reports the exception (caught) and returns False; the test
\* returns True when caught is "".  The unit's instruction is the prompt the
\* test loaded.
test_agent_creation(config, t) ==
    IF AkashicCoordinatorExc # ""
    THEN Outcome("test_agent_creation", "returned", "", AkashicCoordinatorExc, NoUnit)
    ELSE Outcome("test_agent_creation", "returned", "", "",
            Unit("",
                 IF "coordinator" \in AgentNames(config)
                 THEN coordinator_load_prompt_template(
                        AkashicCoordinator(config, "."),
                        AgentsGet(config, "coordinator").prompt_template, t)
                 ELSE Instruction("", <<>>),
                 <<>>, <<>>))

\* AgentFactory(config).create_agent(name, agent_config) for a unit of the
\* configuration: val is NoUnit when the call returns None, caught the
\* exception the except clause of create_agent reports.
factory_create_agent(config, name, t, fails) ==
    LET self == AgentFactory(config)
        made == create_agent(self, name, AgentsGet(config, name), t, fails)
    IN  [Outcome("create_agent",
                 IF made.exc = "" THEN "returned" ELSE "raised",
                 made.exc,
                 IF AgentsGet(config, name).type \in agent_creators
                 THEN CreatorExc(self, name, fails) ELSE "",
                 made.unit)
         EXCEPT !.arg = <<name>>]

\* The two prompt resolvers applied to a template reference: resolver is
\* "factory" (AgentFactory._load_prompt_template) or "coordinator"
\* (AkashicCoordinator._load_prompt_template, on an object whose config and
\* project_root are those of the project).  The instruction of val is what
\* the resolver returned, its src None when it returned None.
resolve_prompt(resolver, config, template_path, t) ==
    [Outcome("load_prompt_template", "returned", "", "",
             Unit("",
                  IF resolver = "factory"
                  THEN Instruction(load_prompt_template(template_path, t), <<>>)
                  ELSE coordinator_load_prompt_template(
                            [config |-> config, project_root |-> "/proj"],
                            template_path, t),
                  <<>>, <<>>))
     EXCEPT !.arg = <<resolver, template_path>>]

(***************************************************************************)
(* ModelManager: integrations/multi_model.py.                              *)
(*                                                                         *)
(* A catalog is the sequence model_configs["models"]; an entry is          *)
(* [model_name, model], model being litellm_params["model"].               *)
(***************************************************************************)
Model(model_name, model) == [model_name |-> model_name, model |-> model]

\* _get_default_configs()["models"]: gpt-4o is listed twice.
get_default_configs ==
    << Model("gpt-4o", "openai/gpt-4o"),
       Model("gpt-4o", "openai/gpt-4o"),
       Model("claude-3-sonnet", "anthropic/claude-3-sonnet-20240229"),
       Model("claude-3-haiku", "anthropic/claude-3-haiku-20240307"),
       Model("gemini-2.0-flash", "gemini/gemini-2.0-flash-exp") >>

\* _get_default_configs()["fallbacks"], as pairs <<backend, its chain>>.
default_fallbacks ==
    << <<"gpt-4o", <<"claude-3-sonnet">> >>,
       <<"claude-3-sonnet", <<"gpt-4o">> >> >>

AvailableModels(catalog) == {catalog[i].model_name : i \in 1..Len(catalog)}

\* _is_model_available
is_model_available(catalog, model_name) == model_name \in AvailableModels(catalog)

\* agent_model_mapping of get_model_for_agent
agent_model_mapping ==
    [t \in {"akashic_coordinator", "akashic_base", "meeting_minutes",
            "template_manager", "custom"} |-> "openai/gpt-4o"]

\* the default of agent_model_mapping.get(agent_type, ...)
GlobalDefaultModel == "openai/gpt-4o"

\* get_model_for_agent returning the preference whenever one is passed.
get_model_for_agent_any_preference(catalog, agent_type, model_preference) ==
    IF model_preference \notin {None, ""}
    THEN model_preference
    ELSE IF agent_type \in DOMAIN agent_model_mapping
         THEN agent_model_mapping[agent_type]
         ELSE GlobalDefaultModel

\* get_model_for_agent: `if model_preference and ...` takes None and the
\* empty string as no preference.
get_model_for_agent(catalog, agent_type, model_preference) ==
    IF model_preference \notin {None, ""} /\ is_model_available(catalog, model_preference)
    THEN model_preference
    ELSE IF agent_type \in DOMAIN agent_model_mapping
         THEN agent_model_mapping[agent_type]
         ELSE GlobalDefaultModel

\* self.router: None, or the Router built from model_list.  builds counts
\* the Router objects constructed since the catalog last changed, which
\* tells a handle that is returned again from one that is built anew.
NoRouter == [built |-> FALSE, model_list |-> <<>>, builds |-> 0]

\* get_router without the `if self.router is None` test: a Router is built
\* on every call.
get_router_rebuilding(catalog, r) ==
    [built |-> TRUE, model_list |-> catalog, builds |-> r.builds + 1]

\* get_router: the handle is built from the catalog on the first call after
\* construction or add_model, and returned as it is afterwards.
get_router(catalog, r) ==
    IF ~r.built
    THEN [built |-> TRUE, model_list |-> catalog, builds |-> r.builds + 1]
    ELSE r

\* add_model: [models, router] after the call.
add_model(catalog, model_config) ==
    [models |-> Append(catalog, model_config), router |-> NoRouter]

(***************************************************************************)
(* DirectoryRuleIndex: integrations/akashic_mcp.py.                        *)
(*                                                                         *)
(* A descriptor is a sequence of lines.  A line is [k, f, x]: k is its     *)
(* kind ("h1" for "# x", "h2" for "## x", "listing" for "- 'f': x",        *)
(* "bullet" for "- x", "hr" for "---", "footer" for "*x*", "text",         *)
(* "blank"), f the file a listing line references, x its text.  The        *)
(* truncation of the purpose to 200 characters is not modelled: the texts  *)
(* of the model are shorter.                                               *)
(***************************************************************************)
Line(k, f, x) == [k |-> k, f |-> f, x |-> x]

Dirs == {"d1", "d2"}
Files == {"a.md", "b.md"}

\* line.strip().startswith('# ')
IsTitle(l) == l.k = "h1"

\* line.startswith('#')
StartsWithHash(l) == l.k \in {"h1", "h2"}

\* 'rule' in line.lower() or 'guideline' in line.lower()
MentionsRule(l) == l.x \in {"Rules", "Guidelines"}

\* line.startswith('-') or line.startswith('*')
IsBullet(l) == l.k \in {"bullet", "listing", "hr", "footer"}

\* line[1:].strip(); the backquotes around a listed file are written as '.
BulletText(l) ==
    IF l.k = "hr" THEN "--"
    ELSE IF l.k = "listing" THEN "'" \o l.f \o "': " \o l.x
    ELSE IF l.k = "footer" THEN l.x \o "*"
    ELSE l.x

\* the line holds the file name between backquotes
References(l, filename) == l.k = "listing" /\ l.f = filename

\* line.strip().lower().startswith('## contents')
IsContentsHeading(l) == l.k = "h2" /\ l.x = "Contents"

RECURSIVE PurposeFrom(_, _, _)
PurposeFrom(lines, j, hi) ==
    IF j > hi THEN <<>>
    ELSE IF lines[j].k # "blank" /\ ~StartsWithHash(lines[j])
         THEN <<lines[j].x>> \o PurposeFrom(lines, j + 1, hi)
         ELSE IF StartsWithHash(lines[j]) THEN <<>>
         ELSE PurposeFrom(lines, j + 1, hi)

\* _extract_purpose: the non-heading lines among the four that follow the
\* first title, up to the next heading.
extract_purpose(lines) ==
    LET titles == {i \in 1..Len(lines) : IsTitle(lines[i])}
    IN  IF titles = {} THEN <<>>
        ELSE LET i == Min(titles)
                 hi == IF i + 4 < Len(lines) THEN i + 4 ELSE Len(lines)
             IN  PurposeFrom(lines, i + 1, hi)

RECURSIVE RulesFrom(_, _, _)
RulesFrom(lines, i, in_rules_section) ==
    IF i > Len(lines) THEN <<>>
    ELSE IF MentionsRule(lines[i]) THEN RulesFrom(lines, i + 1, TRUE)
    ELSE IF StartsWithHash(lines[i]) /\ in_rules_section
         THEN RulesFrom(lines, i + 1, FALSE)
    ELSE IF in_rules_section /\ IsBullet(lines[i])
         THEN <<BulletText(lines[i])>> \o RulesFrom(lines, i + 1, in_rules_section)
    ELSE RulesFrom(lines, i + 1, in_rules_section)

\* _extract_rules
extract_rules(lines) == RulesFrom(lines, 1, FALSE)

\* The Rule.md of the directories that hold one.
RuleMdLines == <<Line("h1", "", "Rules"), Line("bullet", "", "Keep names short")>>

NoReadme == [exists |-> FALSE, lines |-> <<>>]

\* _create_default_readme: the lines of the generated descriptor.
create_default_readme(directory, file_info) ==
    << Line("h1", "", directory),
       Line("blank", "", ""),
       Line("h2", "", "Purpose"),
       Line("text", "", "This directory contains files for the project."),
       Line("blank", "", ""),
       Line("h2", "", "Contents"),
       Line("listing", file_info.name, file_info.description),
       Line("blank", "", ""),
       Line("h2", "", "Rules"),
       Line("bullet", "", "Follow project naming conventions"),
       Line("bullet", "", "Update this README when adding new files"),
       Line("bullet", "", "Maintain consistent organization"),
       Line("blank", "", ""),
       Line("hr", "", ""),
       Line("footer", "", "This README was automatically generated by AkashicRecords"),
       Line("blank", "", "") >>

\* _add_file_to_readme: insert after the first Contents heading, or append
\* a Contents section.
add_file_to_readme(lines, file_info) ==
    LET new_line == Line("listing", file_info.name, file_info.description)
        headings == {i \in 1..Len(lines) : IsContentsHeading(lines[i])}
    IN  IF headings # {}
        THEN SubSeq(lines, 1, Min(headings)) \o <<new_line>>
                \o SubSeq(lines, Min(headings) + 1, Len(lines))
        ELSE lines \o <<Line("blank", "", ""), Line("h2", "", "Contents"), new_line>>

\* _remove_file_from_readme: drop the lines that reference the file.
remove_file_from_readme(lines, file_info) ==
    SelectSeq(lines, LAMBDA l : ~References(l, file_info.name))

\* _update_file_in_readme: the result of the removal is discarded; the file
\* is added to the content as it was.
update_file_in_readme(lines, file_info) ==
    LET removed == remove_file_from_readme(lines, file_info)
    IN  add_file_to_readme(lines, file_info)

Rules(path, has_readme, has_rules, purpose, rules) ==
    [path |-> path, has_readme |-> has_readme, has_rules |-> has_rules,
     purpose |-> purpose, rules |-> rules, file_types |-> <<>>,
     inheritance |-> TRUE]

NoRules == Rules("", FALSE, FALSE, <<>>, <<>>)

\* read_directory_rules on a cache miss: the record computed from the
\* descriptor files of the directory.
compute_rules(dir, rd, rm) ==
    Rules(dir, rd[dir].exists, dir \in rm,
          IF rd[dir].exists THEN extract_purpose(rd[dir].lines) ELSE <<>>,
          (IF rd[dir].exists THEN extract_rules(rd[dir].lines) ELSE <<>>)
            \o (IF dir \in rm THEN extract_rules(RuleMdLines) ELSE <<>>))

\* read_directory_rules: [rec, cache] after the call.
read_directory_rules(dir, rd, rm, c) ==
    IF c[dir].hit
    THEN [rec |-> c[dir].rec, cache |-> c]
    ELSE [rec |-> compute_rules(dir, rd, rm),
          cache |-> [c EXCEPT ![dir] = [hit |-> TRUE, rec |-> compute_rules(dir, rd, rm)]]]

\* File names are sequences of characters.
IsDigit(c) == c \in {"0", "1", "2", "3", "4", "5", "6", "7", "8", "9"}

\* _follows_meeting_naming_convention:
\* re.match(r'^\d{4}-\d{2}-\d{2}_.*\.md$', filename).  The dot of .* matches
\* every character but a line feed, and $ matches at the end of the name or
\* just before a line feed that ends it; stop is where .md ends.
follows_meeting_naming_convention(filename) ==
    /\ Len(filename) >= 14
    /\ \A k \in {1, 2, 3, 4, 6, 7, 9, 10} : IsDigit(filename[k])
    /\ filename[5] = "-"
    /\ filename[8] = "-"
    /\ filename[11] = "_"
    /\ \E stop \in 14..Len(filename) :
          /\ stop = Len(filename) \/ (stop = Len(filename) - 1 /\ filename[Len(filename)] = "\n")
          /\ filename[stop - 2] = "."
          /\ filename[stop - 1] = "m"
          /\ filename[stop] = "d"
          /\ \A k \in 12..(stop - 3) : filename[k] # "\n"

\* type_mapping.get(content_type, []) of _suggest_alternative_locations; the
\* two Chinese directory names are written in Latin letters.
type_mapping(content_type) ==
    IF content_type = "meeting_minutes" THEN <<"Meetings", "HuiYiJiLu", "TaoLunJiLu">>
    ELSE IF content_type = "design_doc" THEN <<"Design", "Documentation", "Architecture">>
    ELSE IF content_type = "requirements" THEN <<"Requirements", "Specs", "Specifications">>
    ELSE IF content_type = "test_case" THEN <<"Testing", "Tests", "QA">>
    ELSE <<>>

\* _suggest_alternative_locations: the suggestions that are directories of
\* the project.
suggest_alternative_locations(content_type) ==
    SelectSeq(type_mapping(content_type), LAMBDA suggestion : suggestion \in Dirs)

\* The validation dict; confidence is kept in hundredths.
Validation(valid, confidence, issues, alternative_locations) ==
    [valid |-> valid, confidence |-> confidence, issues |-> issues,
     suggestions |-> <<>>, alternative_locations |-> alternative_locations]

NoValidation == Validation(FALSE, 0, <<>>, <<>>)

\* validate_file_placement for the file filename of directory dir:
\* [val, cache] after the call.
validate_file_placement(dir, filename, content_type, rd, rm, c) ==
    LET rules == read_directory_rules(dir, rd, rm, c)
        typed == rules.rec.file_types # <<>>
                    /\ \A i \in 1..Len(rules.rec.file_types) :
                            rules.rec.file_types[i] # content_type
        named == content_type = "meeting_minutes"
                    /\ ~follows_meeting_naming_convention(filename)
        confidence == IF named
                      THEN ((IF typed THEN 30 ELSE 100) * 8) \div 10
                      ELSE IF typed THEN 30 ELSE 100
    IN  [val   |-> Validation(
                      ~typed,
                      confidence,
                      (IF typed THEN <<"Content type not typically allowed">> ELSE <<>>)
                        \o (IF named
                            THEN <<"Meeting minutes should follow YYYY-MM-DD_ProjectName_MeetingType.md format">>
                            ELSE <<>>),
                      IF confidence < 70
                      THEN suggest_alternative_locations(content_type) ELSE <<>>),
         cache |-> rules.cache]

UpdateResult(updated, created_readme, changes) ==
    [updated |-> updated, created_readme |-> created_readme, changes |-> changes]

\* content = ... for the operation; an operation that is none of the three
\* leaves the content as it is.
UpdatedContent(lines, operation, file_info) ==
    IF operation = "create" THEN add_file_to_readme(lines, file_info)
    ELSE IF operation = "delete" THEN remove_file_from_readme(lines, file_info)
    ELSE IF operation = "move" THEN update_file_in_readme(lines, file_info)
    ELSE lines

ChangeText(operation, file_info) ==
    IF operation = "create" THEN <<"Added " \o file_info.name \o " to file list">>
    ELSE IF operation = "delete" THEN <<"Removed " \o file_info.name \o " from file list">>
    ELSE IF operation = "move" THEN <<"Updated " \o file_info.name \o " information">>
    ELSE <<>>

\* update_readme_after_file_operation with the cache left as it is after a
\* successful write.
update_readme_keeping_cache(dir, operation, file_info, io, rd, c) ==
    IF ~rd[dir].exists /\ operation = "create"
    THEN IF io = "write_fails"
         THEN [exc |-> "OSError", res |-> UpdateResult(FALSE, FALSE, <<>>),
               readme |-> rd, cache |-> c]
         ELSE [exc |-> "", res |-> UpdateResult(TRUE, TRUE, <<"Created new README.md">>),
               readme |-> [rd EXCEPT ![dir] =
                    [exists |-> TRUE, lines |-> create_default_readme(dir, file_info)]],
               cache |-> c]
    ELSE IF ~rd[dir].exists \/ io = "read_fails"
    THEN [exc |-> "", res |-> UpdateResult(FALSE, FALSE, <<>>), readme |-> rd, cache |-> c]
    ELSE IF io = "write_fails"
    THEN [exc |-> "", res |-> UpdateResult(FALSE, FALSE, ChangeText(operation, file_info)),
          readme |-> rd, cache |-> c]
    ELSE [exc |-> "", res |-> UpdateResult(TRUE, FALSE, ChangeText(operation, file_info)),
          readme |-> [rd EXCEPT ![dir] =
                [exists |-> TRUE,
                 lines |-> UpdatedContent(rd[dir].lines, operation, file_info)]],
          cache |-> c]

\* update_readme_after_file_operation: [exc, res, readme, cache] after the
\* call.  io is "ok", "read_fails" (open(readme_path, 'r') raises) or
\* "write_fails" (open(readme_path, 'w') raises).  The branch that creates a
\* descriptor returns without touching the cache and outside the try block.
update_readme_after_file_operation(dir, operation, file_info, io, rd, c) ==
    IF ~rd[dir].exists /\ operation = "create"
    THEN IF io = "write_fails"
         THEN [exc |-> "OSError", res |-> UpdateResult(FALSE, FALSE, <<>>),
               readme |-> rd, cache |-> c]
         ELSE [exc |-> "", res |-> UpdateResult(TRUE, TRUE, <<"Created new README.md">>),
               readme |-> [rd EXCEPT ![dir] =
                    [exists |-> TRUE, lines |-> create_default_readme(dir, file_info)]],
               cache |-> c]
    ELSE IF ~rd[dir].exists
    THEN [exc |-> "", res |-> UpdateResult(FALSE, FALSE, <<>>), readme |-> rd, cache |-> c]
    ELSE IF io = "read_fails"
    THEN [exc |-> "", res |-> UpdateResult(FALSE, FALSE, <<>>), readme |-> rd, cache |-> c]
    ELSE IF io = "write_fails"
    THEN [exc |-> "", res |-> UpdateResult(FALSE, FALSE, ChangeText(operation, file_info)),
          readme |-> rd, cache |-> c]
    ELSE [exc |-> "", res |-> UpdateResult(TRUE, FALSE, ChangeText(operation, file_info)),
          readme |-> [rd EXCEPT ![dir] =
                [exists |-> TRUE,
                 lines |-> UpdatedContent(rd[dir].lines, operation, file_info)]],
          cache |-> [c EXCEPT ![dir] = [hit |-> FALSE, rec |-> NoRules]]]

(***************************************************************************)
(* The projects and environments the composer is exercised on.             *)
(***************************************************************************)
NoEnv ==
    [ARAC_PROJECT_PATH |-> None,
     ARAC_FALLBACK_MAX_OUTPUT_TOKENS |-> None,
     ARAC_FALLBACK_MAX_CONTEXT_TOKENS |-> None]

Envs ==
    [ARAC_PROJECT_PATH : {None, "/proj"},
     ARAC_FALLBACK_MAX_OUTPUT_TOKENS : {None, "", "4096", "abc"},
     ARAC_FALLBACK_MAX_CONTEXT_TOKENS : {None, "abc"}]

NoTemplates == [arc |-> "missing", abs |-> "missing"]

Templates ==
    {NoTemplates,
     [arc |-> "readable", abs |-> "missing"],
     [arc |-> "readable", abs |-> "readable"],
     [arc |-> "missing", abs |-> "readable"],
     [arc |-> "unreadable", abs |-> "readable"],
     [arc |-> "missing", abs |-> "unreadable"]}

TemplatePaths == {None, "", "prompts/coordinator.md"}

NoResult == Outcome("none", "none", "", "", NoUnit)

FsNoEnabledKey == [DefaultFilesystem EXCEPT !.hasEnabled = FALSE]

ComposeAgents ==
    {Val(c \o b \o m) :
        c \in {<<>>, <<Entry("coordinator", RawCoordinator)>>},
        b \in {<<>>,
               <<Entry("base_agent", RawBase)>>,
               <<Entry("base_agent", [RawBase EXCEPT !.enabled = Val(FALSE)])>>,
               <<Entry("base_agent", RawMapping(Val("unknown_type")))>>,
               <<Entry("base_agent", [RawBase EXCEPT !.tools = Val(<<>>)])>>},
        m \in {<<>>, <<Entry("meeting_agent", RawMapping(Val("meeting_minutes")))>>}}

ComposeDocs ==
    {EmptyDoc("absent"), EmptyDoc("garbage")}
    \cup {ObjectDoc(GoodProject, a, m, Missing(DefaultWorkflow)) :
            a \in ComposeAgents,
            m \in {McpMissing, McpFs(Val(FsDisabled)), McpFs(Val(FsNoEnabledKey))}}
    \cup {ObjectDoc(GoodProject,
                    Val(<<Entry("coordinator", RawCoordinator),
                          Entry("base_agent", RawScalar)>>),
                    McpMissing, Missing(DefaultWorkflow))}

\* The units the external runtime may reject.
RejectableUnits == {"meeting_agent"}

(***************************************************************************)
(* ProjectHealthValidator: utils/validation.py.                            *)
(*                                                                         *)
(* errors, warnings and recommendations are sequences of messages; the     *)
(* text the source appends after a colon (the exception, a file or unit    *)
(* name) is kept only where a message is told from another by it.          *)
(***************************************************************************)
\* self.arclient_path.exists()
ArclientPathExists(lay) == lay \in {"arclient_dir", "arclient_is_file"}

\* model.split('/', 1) for the model strings of the documents.
SlashSplit(model) ==
    IF model = "openai/gpt-4o"
    THEN [slash |-> TRUE, provider |-> "openai", model_name |-> "gpt-4o"]
    ELSE IF model = "openai/"
    THEN [slash |-> TRUE, provider |-> "openai", model_name |-> ""]
    ELSE IF model = "/gpt-4o"
    THEN [slash |-> TRUE, provider |-> "", model_name |-> "gpt-4o"]
    ELSE [slash |-> FALSE, provider |-> "", model_name |-> model]

\* _is_valid_model_format
is_valid_model_format(model) ==
    IF SlashSplit(model).slash
    THEN SlashSplit(model).provider # "" /\ SlashSplit(model).model_name # ""
    ELSE model # ""

\* The statements of the second try block of _validate_config up to
\* ProjectConfig(**config_data): the exception they raise, "" when the
\* configuration object is built.  The units are converted one by one with
\* AgentConfig(**agent_data); the other sections are left to pydantic.
ValidateBuildExc(d) ==
    IF d.kind = "nonobject" THEN "TypeError"
    ELSE IF d.agents.t = "bad" THEN "AttributeError"
    ELSE IF d.agents.t = "val" /\ AgentsLoopExc(d.agents.v) # ""
         THEN AgentsLoopExc(d.agents.v)
    ELSE IF \/ d.project.t # "val"
            \/ d.agents.t # "val"
            \/ d.mcp_tools.t = "scalar"
            \/ (d.mcp_tools.t = "val" /\ d.mcp_tools.fs.t = "bad")
            \/ d.workflow.t \in {"scalar", "bad"}
         THEN "ValidationError"
    ELSE ""

\* enabled_agents = [name for name, agent in config.agents.items() if agent.enabled]
EnabledAgents(config) ==
    SelectSeq([i \in 1..Len(config.agents) |->
                    IF config.agents[i].spec.enabled
                    THEN config.agents[i].name ELSE ""],
              LAMBDA n : n # "")

InSeq(x, seq) == \E i \in 1..Len(seq) : seq[i] = x

\* The warnings of the model-format loop, one per unit.
ModelWarnings(config) ==
    SelectSeq([i \in 1..Len(config.agents) |->
                    IF config.agents[i].spec.model # ""
                       /\ ~is_valid_model_format(config.agents[i].spec.model)
                    THEN "unusual model format: " \o config.agents[i].name
                    ELSE ""],
              LAMBDA w : w # "")

Checked(exc, valid, errors, warnings) ==
    [exc |-> exc, valid |-> valid, errors |-> errors, warnings |-> warnings]

\* _validate_config: [exc, valid, errors, warnings]; exc names the exception
\* that escapes, the except clause catching ValidationError only.
validate_config(lay, d) ==
    IF ~ConfigPathExists(lay, d)
    THEN Checked("", FALSE, <<"Missing config.json file">>, <<>>)
    ELSE IF d.kind = "garbage"
    THEN Checked("", FALSE, <<"Invalid JSON in config.json">>, <<>>)
    ELSE IF d.kind = "unreadable"
    THEN Checked("", FALSE, <<"Could not read config.json">>, <<>>)
    ELSE IF ValidateBuildExc(d) = "ValidationError"
    THEN Checked("", FALSE, <<"Configuration validation failed">>, <<>>)
    ELSE IF ValidateBuildExc(d) # ""
    THEN Checked(ValidateBuildExc(d), FALSE, <<>>, <<>>)
    ELSE LET config == ProjectConfig(d)
             enabled_agents == EnabledAgents(config)
         IN  Checked("", TRUE,
                IF Len(enabled_agents) = 0
                THEN <<"No agents are enabled">> ELSE <<>>,
                (IF "coordinator" \notin AgentNames(config)
                 THEN <<"No coordinator agent configured">> ELSE <<>>)
                \o (IF Len(enabled_agents) = 1 /\ InSeq("coordinator", enabled_agents)
                    THEN <<"Only coordinator agent enabled">> ELSE <<>>)
                \o ModelWarnings(config))

standard_prompts == <<"coordinator.md", "base_agent.md", "meeting_agent.md">>

\* _validate_prompts: p.prompts is [dir, files], files giving "missing",
\* "empty" or "ok" for each standard prompt.
validate_prompts(lay, p) ==
    IF lay # "arclient_dir" \/ ~p.prompts.dir
    THEN <<"No prompts directory found">>
    ELSE SelectSeq([i \in 1..Len(standard_prompts) |->
                        IF p.prompts.files[standard_prompts[i]] = "missing"
                        THEN "Missing prompt template: " \o standard_prompts[i]
                        ELSE IF p.prompts.files[standard_prompts[i]] = "empty"
                        THEN "Empty prompt template: " \o standard_prompts[i]
                        ELSE ""],
                   LAMBDA w : w # "")

\* The raw meeting_agent entry of the document, read with dict.get.
HasEntry(entries, name) == \E i \in 1..Len(entries) : entries[i].name = name

RawEntry(entries, name) ==
    entries[CHOOSE i \in 1..Len(entries) : entries[i].name = name].spec

RECURSIVE TargetWarnings(_, _, _)
TargetWarnings(target_dirs, i, p) ==
    IF i > Len(target_dirs) THEN <<>>
    ELSE (IF p.targets[target_dirs[i]] = "missing"
          THEN <<"Target directory does not exist: " \o target_dirs[i]>>
          ELSE IF p.targets[target_dirs[i]] = "no_readme"
          THEN <<"Target directory missing README.md: " \o target_dirs[i]>>
          ELSE <<>>)
         \o TargetWarnings(target_dirs, i + 1, p)

\* _validate_directory_structure: the document is read again, without any
\* schema; whatever is raised becomes one warning.
validate_directory_structure(lay, d, p) ==
    IF \/ ~ConfigPathExists(lay, d)
       \/ d.kind \in {"unreadable", "garbage", "nonobject"}
       \/ d.agents.t = "bad"
    THEN <<"Could not validate directory structure">>
    ELSE IF d.agents.t # "val" \/ ~HasEntry(d.agents.v, "meeting_agent")
    THEN <<>>
    ELSE LET meeting_agent == RawEntry(d.agents.v, "meeting_agent")
         IN  IF meeting_agent.shape # "mapping"
                \/ meeting_agent.target_directories.t = "bad"
             THEN <<"Could not validate directory structure">>
             ELSE IF meeting_agent.target_directories.t # "val" THEN <<>>
             ELSE TargetWarnings(meeting_agent.target_directories.v, 1, p)

\* _validate_environment
validate_environment(p) ==
    (IF ~p.env_file THEN <<"No .env file found">> ELSE <<>>)
    \o (IF ~p.env_example THEN <<"No .env.example file found">> ELSE <<>>)

\* validate_project with validity taken from the absence of warnings too.
validate_project_strict(lay, d, p) ==
    IF ~ArclientPathExists(lay)
    THEN Checked("", FALSE, <<"Missing .arclient configuration directory">>, <<>>)
    ELSE IF validate_config(lay, d).exc # ""
    THEN Checked(validate_config(lay, d).exc, FALSE, <<>>, <<>>)
    ELSE LET errors == validate_config(lay, d).errors
             warnings == validate_config(lay, d).warnings
                            \o validate_prompts(lay, p)
                            \o validate_directory_structure(lay, d, p)
                            \o validate_environment(p)
         IN  Checked("", Len(errors) = 0 /\ Len(warnings) = 0, errors, warnings)

\* validate_project with the prompt-template findings reported as errors.
validate_project_prompt_errors(lay, d, p) ==
    IF ~ArclientPathExists(lay)
    THEN Checked("", FALSE, <<"Missing .arclient configuration directory">>, <<>>)
    ELSE IF validate_config(lay, d).exc # ""
    THEN Checked(validate_config(lay, d).exc, FALSE, <<>>, <<>>)
    ELSE LET errors == validate_config(lay, d).errors \o validate_prompts(lay, p)
             warnings == validate_config(lay, d).warnings
                            \o validate_directory_structure(lay, d, p)
                            \o validate_environment(p)
         IN  Checked("", Len(errors) = 0, errors, warnings)

\* validate_project: [exc, valid, errors, warnings]; an exception that
\* escapes _validate_config escapes validate_project.
validate_project(lay, d, p) ==
    IF ~ArclientPathExists(lay)
    THEN Checked("", FALSE, <<"Missing .arclient configuration directory">>, <<>>)
    ELSE IF validate_config(lay, d).exc # ""
    THEN Checked(validate_config(lay, d).exc, FALSE, <<>>, <<>>)
    ELSE LET errors == validate_config(lay, d).errors
             warnings == validate_config(lay, d).warnings
                            \o validate_prompts(lay, p)
                            \o validate_directory_structure(lay, d, p)
                            \o validate_environment(p)
         IN  Checked("", Len(errors) = 0, errors, warnings)

ConfigInfo(loaded_ok, enabled_agents) ==
    [loaded |-> loaded_ok, enabled_agents |-> enabled_agents]

Report(call, exc, valid, errors, warnings, status, recommendations, configuration) ==
    [call |-> call, exc |-> exc, valid |-> valid, errors |-> errors,
     warnings |-> warnings, status |-> status,
     recommendations |-> recommendations, configuration |-> configuration]

NoReport == Report("none", "", FALSE, <<>>, <<>>, "", <<>>, ConfigInfo(FALSE, <<>>))

\* generate_health_report: validate_project is called outside any try
\* block; the configuration is loaded inside one.
generate_health_report(lay, d, p) ==
    LET v == validate_project(lay, d, p)
        config == load_project_config(lay, d)
        config_info == IF config.kind = "returned"
                       THEN ConfigInfo(TRUE, EnabledAgents(config.val))
                       ELSE ConfigInfo(FALSE, <<>>)
    IN  IF v.exc # ""
        THEN [NoReport EXCEPT !.call = "generate_health_report", !.exc = v.exc]
        ELSE Report("generate_health_report", "", v.valid, v.errors, v.warnings,
                IF v.valid THEN "healthy" ELSE "needs_attention",
                (IF Len(v.errors) > 0
                 THEN <<"Fix configuration errors before running agents">> ELSE <<>>)
                \o (IF Len(v.warnings) > 3
                    THEN <<"Review warnings to improve configuration">> ELSE <<>>)
                \o (IF InSeq("meeting_agent", config_info.enabled_agents)
                    THEN <<"Ensure meeting target directories have README.md files">>
                    ELSE <<>>),
                config_info)

(***************************************************************************)
(* The projects the validator is exercised on.                             *)
(***************************************************************************)
TargetDirs == {"Meetings"}

RawMeeting(td) ==
    [RawMapping(Val("meeting_minutes")) EXCEPT !.target_directories = td]

HealthAgents ==
    { Val(<<Entry("coordinator", [RawCoordinator EXCEPT !.enabled = Val(FALSE)])>>),
      Val(<<Entry("coordinator", [RawCoordinator EXCEPT !.model = Val("openai/")]),
            Entry("base_agent", [RawBase EXCEPT !.model = Val("")])>>),
      Val(<<Entry("coordinator", RawCoordinator),
            Entry("meeting_agent", RawMeeting(Val(<<"Meetings">>)))>>),
      Val(<<Entry("coordinator", RawCoordinator),
            Entry("meeting_agent", RawMeeting(Bad(<<>>)))>>),
      Val(<<Entry("coordinator", RawCoordinator),
            Entry("meeting_agent", RawScalar)>>),
      Val(<<Entry("coordinator", RawCoordinator),
            Entry("minutes", RawMeeting(Val(<<"Meetings">>)))>>) }

HealthDocs ==
    StoreDocs
    \cup {EmptyDoc("unreadable")}
    \cup {ObjectDoc(GoodProject, a, McpMissing, Missing(DefaultWorkflow)) :
            a \in HealthAgents}
    \cup {ObjectDoc(GoodProject, Val(<<Entry("coordinator", RawCoordinator)>>),
                    McpMissing, [t |-> "scalar", v |-> DefaultWorkflow])}

HealthDisks ==
    {<<l, EmptyDoc("absent")>> :
        l \in {"no_root", "no_arclient", "arclient_is_file", "arclient_dir"}}
    \cup {<<"arclient_dir", d>> : d \in HealthDocs}

NoPrompts == [dir |-> FALSE, files |-> [f \in {"coordinator.md", "base_agent.md",
                                               "meeting_agent.md"} |-> "missing"]]

Sides ==
    [prompts : {NoPrompts,
                [dir |-> TRUE,
                 files |-> [f \in {"coordinator.md", "base_agent.md",
                                   "meeting_agent.md"} |-> "ok"]],
                [dir |-> TRUE,
                 files |-> [f \in {"coordinator.md", "base_agent.md",
                                   "meeting_agent.md"} |->
                                IF f = "coordinator.md" THEN "ok"
                                ELSE IF f = "base_agent.md" THEN "empty"
                                ELSE "missing"]]},
     targets : [TargetDirs -> {"missing", "no_readme", "ok"}],
     env_file : BOOLEAN,
     env_example : BOOLEAN]

NoSide == [prompts |-> NoPrompts, targets |-> [t \in TargetDirs |-> "missing"],
           env_file |-> FALSE, env_example |-> FALSE]

\* The validator before any call, as the other state machines leave it.
HealthIdle ==
    /\ side = NoSide
    /\ report = NoReport

NoPick == [call |-> FALSE, agent_type |-> "", model_preference |-> None,
           available |-> {}, val |-> ""]

\* The model manager before any call, as the other state machines leave it.
RoutingIdle ==
    /\ models = get_default_configs
    /\ router = NoRouter
    /\ picked = NoPick

(***************************************************************************)
(* The directory rule index as a state machine.                            *)
(***************************************************************************)
\* A descriptor written by hand, without a Contents section.
PlainReadme ==
    [exists |-> TRUE,
     lines |-> <<Line("h1", "", "Notes"), Line("text", "", "Meeting notes.")>>]

\* A descriptor written by hand that names the content types the directory
\* takes, under a heading of its own.
TypedReadme ==
    [exists |-> TRUE,
     lines |-> <<Line("h1", "", "Designs"), Line("text", "", "Design documents."),
                 Line("h2", "", "Allowed file types"),
                 Line("bullet", "", "design_doc")>>]

\* The descriptors the directories start with.
Readmes ==
    [Dirs -> {NoReadme, PlainReadme}]
    \cup {[d \in Dirs |-> IF d = "d2" THEN TypedReadme ELSE NoReadme]}

FileInfos == {[name |-> f, description |-> "Added file"] : f \in Files}

\* The file names validate_file_placement is given.
Date(month, day) == <<"2", "0", "2", "4", "-">> \o month \o <<"-">> \o day
Md == <<".", "m", "d">>

FileNames ==
    {Date(<<"0", "1">>, <<"1", "5">>) \o <<"_", "x">> \o Md,
     Date(<<"1", "3">>, <<"4", "0">>) \o <<"_", "x">> \o Md,
     Date(<<"0", "1">>, <<"1", "5">>) \o <<"_">> \o Md,
     Date(<<"1">>, <<"1", "5">>) \o <<"_", "x">> \o Md,
     Date(<<"0", "1">>, <<"1", "5">>) \o Md,
     Date(<<"0", "1">>, <<"1", "5">>) \o <<"_", "x", ".", "t", "x", "t">>,
     Date(<<"0", "1">>, <<"1", "5">>) \o <<"_", "a", "\n", "b">> \o Md,
     Date(<<"0", "1">>, <<"1", "5">>) \o <<"_", "x">> \o Md \o <<"\n">>,
     <<"M", "e", "e", "t", "i", "n", "g", "_", "N", "o", "t", "e", "s">> \o Md}

ContentTypes == {"meeting_minutes", "design_doc"}

NoCall == [call |-> "none", dir |-> "", operation |-> "", file |-> "", io |-> "",
           exc |-> "", rec |-> NoRules, res |-> UpdateResult(FALSE, FALSE, <<>>),
           had_readme |-> FALSE, filename |-> <<>>, content_type |-> "",
           val |-> NoValidation]

EmptyCache == [d \in Dirs |-> [hit |-> FALSE, rec |-> NoRules]]

\* The index before any call, as the other state machines leave it.
IndexIdle ==
    /\ readme = [d \in Dirs |-> NoReadme]
    /\ rulemd = {}
    /\ cache = EmptyCache
    /\ calls = <<>>
    /\ last = NoCall

IndexInit ==
    /\ readme \in Readmes
    /\ rulemd \in SUBSET {"d1"}
    /\ cache = EmptyCache
    /\ calls = <<>>
    /\ last = NoCall
    /\ layout = "arclient_dir"
    /\ doc = EmptyDoc("absent")
    /\ mem = NoConfig
    /\ saved = ""
    /\ loaded = NotCalled(NoConfig)
    /\ ops = <<>>
    /\ env = NoEnv
    /\ cwd = "ok"
    /\ tmpl = NoTemplates
    /\ ext = {}
    /\ result = NoResult
    /\ RoutingIdle
    /\ HealthIdle

ReadDirectoryRules ==
    \E dir \in Dirs :
        /\ Len(calls) < MaxCalls
        /\ LET r == read_directory_rules(dir, readme, rulemd, cache)
           IN  /\ cache' = r.cache
               /\ last' = [NoCall EXCEPT !.call = "read", !.dir = dir, !.rec = r.rec,
                                         !.had_readme = readme[dir].exists]
        /\ calls' = Append(calls, <<"read", dir, "">>)
        /\ UNCHANGED <<readme, rulemd, storeVars, composeVars, routeVars, healthVars>>

UpdateReadmeAfterFileOperation ==
    \E dir \in Dirs, operation \in {"create", "delete", "move"},
       file_info \in FileInfos, io \in {"ok", "read_fails", "write_fails"} :
        /\ Len(calls) < MaxCalls
        /\ LET r == update_readme_after_file_operation(
                        dir, operation, file_info, io, readme, cache)
           IN  /\ calls' = Append(calls, <<"update", dir,
                        IF r.res.created_readme THEN "created"
                        ELSE IF r.res.updated THEN operation ELSE "">>)
               /\ readme' = r.readme
               /\ cache' = r.cache
               /\ last' = [NoCall EXCEPT !.call = "update", !.dir = dir,
                                         !.operation = operation,
                                         !.file = file_info.name, !.io = io,
                                         !.exc = r.exc, !.res = r.res,
                                         !.had_readme = readme[dir].exists]
        /\ UNCHANGED <<rulemd, storeVars, composeVars, routeVars, healthVars>>

ValidateFilePlacement ==
    \E dir \in Dirs, filename \in FileNames, content_type \in ContentTypes :
        /\ Len(calls) < MaxCalls
        /\ LET r == validate_file_placement(dir, filename, content_type,
                                            readme, rulemd, cache)
           IN  /\ cache' = r.cache
               /\ last' = [NoCall EXCEPT !.call = "validate", !.dir = dir,
                                         !.filename = filename,
                                         !.content_type = content_type,
                                         !.val = r.val,
                                         !.had_readme = readme[dir].exists]
        /\ calls' = Append(calls, <<"validate", dir, "">>)
        /\ UNCHANGED <<readme, rulemd, storeVars, composeVars, routeVars, healthVars>>

IndexNext ==
    \/ ReadDirectoryRules
    \/ UpdateReadmeAfterFileOperation
    \/ ValidateFilePlacement

SpecIndex == IndexInit /\ [][IndexNext]_vars

\* The cache and the descriptors alone: lookups and mutations in any order.
\* The methods are coroutines without a suspension point (no await reaches
\* the event loop), so concurrent calls on one index run one after another
\* in an order the scheduler chooses, each as one step.
CacheNext ==
    \/ ReadDirectoryRules
    \/ UpdateReadmeAfterFileOperation

SpecCache == IndexInit /\ [][CacheNext]_vars

(***************************************************************************)
(* The model manager as a state machine.                                   *)
(***************************************************************************)
AgentTypes == {"akashic_coordinator", "akashic_base", "meeting_minutes",
               "template_manager", "custom", "coordinator", "reviewer"}

Preferences == {None, "", "gpt-4o", "claude-3-haiku", "local", "mistral",
                "openai/gpt-4o"}

AddedModels == {Model("local", "ollama/llama3"), Model("mistral", "mistral/mistral-small")}

\* ModelManager(model_configs): the default catalog, or the one passed.
RoutingInit ==
    /\ models \in {get_default_configs, <<>>, <<Model("local", "ollama/llama3")>>}
    /\ router = NoRouter
    /\ picked = NoPick
    /\ IndexIdle
    /\ HealthIdle
    /\ layout = "arclient_dir"
    /\ doc = EmptyDoc("absent")
    /\ mem = NoConfig
    /\ saved = ""
    /\ loaded = NotCalled(NoConfig)
    /\ ops = <<>>
    /\ env = NoEnv
    /\ cwd = "ok"
    /\ tmpl = NoTemplates
    /\ ext = {}
    /\ result = NoResult

GetModelForAgent ==
    \E agent_type \in AgentTypes, model_preference \in Preferences :
        /\ picked' = [call |-> TRUE, agent_type |-> agent_type,
                      model_preference |-> model_preference,
                      available |-> AvailableModels(models),
                      val |-> get_model_for_agent(models, agent_type, model_preference)]
        /\ UNCHANGED <<models, router, storeVars, composeVars, indexVars, healthVars>>

AddModel ==
    \E model_config \in AddedModels :
        /\ Len(models) < MaxModels
        /\ models' = add_model(models, model_config).models
        /\ router' = add_model(models, model_config).router
        /\ UNCHANGED <<picked, storeVars, composeVars, indexVars, healthVars>>

GetRouter ==
    /\ router' = get_router(models, router)
    /\ UNCHANGED <<models, picked, storeVars, composeVars, indexVars, healthVars>>

RoutingNext == GetModelForAgent \/ AddModel \/ GetRouter

SpecRouting == RoutingInit /\ [][RoutingNext]_vars

(***************************************************************************)
(* The composer as a state machine.                                        *)
(***************************************************************************)
ComposeInit ==
    /\ layout = "arclient_dir"
    /\ doc \in ComposeDocs
    /\ env \in Envs
    /\ cwd \in {"ok", "deleted"}
    /\ tmpl \in Templates
    /\ ext \in SUBSET RejectableUnits
    /\ result = NoResult
    /\ mem = NoConfig
    /\ saved = ""
    /\ loaded = NotCalled(NoConfig)
    /\ ops = <<>>
    /\ IndexIdle
    /\ RoutingIdle
    /\ HealthIdle

CreateRootAgent ==
    /\ result' = create_root_agent(layout, doc, env, cwd, tmpl, ext)
    /\ UNCHANGED <<storeVars, env, cwd, tmpl, ext, indexVars, routeVars, healthVars>>

BuildHierarchy ==
    /\ load_project_config(layout, doc).kind = "returned"
    /\ result' = build_hierarchy(load_project_config(layout, doc).val, tmpl, ext)
    /\ UNCHANGED <<storeVars, env, cwd, tmpl, ext, indexVars, routeVars, healthVars>>

TestAgentCreation ==
    /\ load_project_config(layout, doc).kind = "returned"
    /\ result' = test_agent_creation(load_project_config(layout, doc).val, tmpl)
    /\ UNCHANGED <<storeVars, env, cwd, tmpl, ext, indexVars, routeVars, healthVars>>

CreateAgent ==
    /\ load_project_config(layout, doc).kind = "returned"
    /\ \E name \in AgentNames(load_project_config(layout, doc).val) :
            result' = factory_create_agent(load_project_config(layout, doc).val,
                                           name, tmpl, ext)
    /\ UNCHANGED <<storeVars, env, cwd, tmpl, ext, indexVars, routeVars, healthVars>>

LoadPromptTemplate ==
    /\ load_project_config(layout, doc).kind = "returned"
    /\ \E resolver \in {"factory", "coordinator"}, template_path \in TemplatePaths :
            result' = resolve_prompt(resolver, load_project_config(layout, doc).val,
                                     template_path, tmpl)
    /\ UNCHANGED <<storeVars, env, cwd, tmpl, ext, indexVars, routeVars, healthVars>>

ComposeNext ==
    \/ CreateRootAgent
    \/ BuildHierarchy
    \/ TestAgentCreation
    \/ CreateAgent
    \/ LoadPromptTemplate

SpecCompose == ComposeInit /\ [][ComposeNext]_vars

(***************************************************************************)
(* The configuration store as a state machine.                             *)
(***************************************************************************)
StoreInit ==
    /\ \E disk \in StoreDisks : layout = disk[1] /\ doc = disk[2]
    /\ mem \in MemConfigs
    /\ saved = ""
    /\ loaded = NotCalled(NoConfig)
    /\ ops = <<>>
    /\ env = NoEnv
    /\ cwd = "ok"
    /\ tmpl = NoTemplates
    /\ ext = {}
    /\ result = NoResult
    /\ IndexIdle
    /\ RoutingIdle
    /\ HealthIdle

SaveConfig ==
    /\ Len(ops) < MaxOps
    /\ LET r == save_config(mem, layout, doc)
       IN  /\ layout' = r.layout
           /\ doc' = r.doc
           /\ saved' = IF r.exc = "" THEN "ok" ELSE r.exc
    /\ ops' = Append(ops, "save")
    /\ UNCHANGED <<mem, loaded, composeVars, indexVars, routeVars, healthVars>>

LoadProjectConfig ==
    /\ Len(ops) < MaxOps
    /\ loaded' = load_project_config(layout, doc)
    /\ ops' = Append(ops, "load")
    /\ UNCHANGED <<layout, doc, mem, saved, composeVars, indexVars, routeVars, healthVars>>

StoreNext == SaveConfig \/ LoadProjectConfig

SpecStore == StoreInit /\ [][StoreNext]_vars

(***************************************************************************)
(* The validator as a state machine.                                       *)
(***************************************************************************)
HealthInit ==
    /\ \E disk \in HealthDisks : layout = disk[1] /\ doc = disk[2]
    /\ side \in Sides
    /\ report = NoReport
    /\ mem = NoConfig
    /\ saved = ""
    /\ loaded = NotCalled(NoConfig)
    /\ ops = <<>>
    /\ env = NoEnv
    /\ cwd = "ok"
    /\ tmpl = NoTemplates
    /\ ext = {}
    /\ result = NoResult
    /\ IndexIdle
    /\ RoutingIdle

ValidateProject ==
    /\ report' = LET v == validate_project(layout, doc, side)
                 IN  [NoReport EXCEPT !.call = "validate_project", !.exc = v.exc,
                                      !.valid = v.valid, !.errors = v.errors,
                                      !.warnings = v.warnings]
    /\ UNCHANGED <<side, storeVars, composeVars, indexVars, routeVars>>

GenerateHealthReport ==
    /\ report' = generate_health_report(layout, doc, side)
    /\ UNCHANGED <<side, storeVars, composeVars, indexVars, routeVars>>

HealthNext == ValidateProject \/ GenerateHealthReport

SpecHealth == HealthInit /\ [][HealthNext]_vars

(***************************************************************************)
(* Properties of the configuration store.                                  *)
(***************************************************************************)
LastOp == IF ops = <<>> THEN "" ELSE ops[Len(ops)]

EndsSaveLoad ==
    /\ Len(ops) >= 2
    /\ ops[Len(ops) - 1] = "save"
    /\ ops[Len(ops)] = "load"

\* Every value of the open bags is one JSON represents and reads back equal.
JsonNative(config) ==
    \A i \in 1..Len(config.agents) :
        \A p \in config.agents[i].spec.custom_config : p[2] \in {"str", "list"}

\* C6, as stated: whenever save_config(c, root) returned and
\* load_project_config(root) follows it, the load returns a configuration
\* equal to c, for any valid configuration c.
C6_RoundTripAnyConfig ==
    (EndsSaveLoad /\ saved = "ok") =>
        (loaded.kind = "returned" /\ ProjectConfigEq(loaded.val, mem))

\* C6, amended: for a valid configuration whose open bags hold only values
\* JSON represents (no tuple, set, NaN or lone surrogate) and a project root
\* that exists and whose .arclient is absent or a directory, save_config
\* returns and the following load_project_config returns a configuration
\* equal to c.
C6_RoundTripJsonNative ==
    (EndsSaveLoad /\ JsonNative(mem)
        /\ layout \notin {"no_root", "arclient_is_file"}) =>
        (saved = "ok" /\ loaded.kind = "returned"
            /\ ProjectConfigEq(loaded.val, mem))

\* A disabled unit with a non-empty custom_config saved over an invalid
\* document and loaded back.
C6_Witness ==
    /\ ops = <<"load", "save", "load">>
    /\ saved = "ok"
    /\ loaded.kind = "returned"
    /\ Len(mem.agents) = 2
    /\ ~mem.agents[2].spec.enabled
    /\ mem.agents[2].spec.custom_config = {<<"k", "list">>}
    /\ ~mem.mcp_tools.filesystem.enabled

UnitViolation(raw) ==
    \/ raw.shape # "mapping"
    \/ raw.type.t \in {"missing", "bad"}
    \/ raw.enabled.t = "bad"
    \/ raw.model.t = "bad"
    \/ raw.tools.t = "bad"
    \/ raw.permissions.t = "bad"
    \/ raw.target_directories.t = "bad"

StructuralViolation(d) ==
    \/ d.kind = "garbage"
    \/ /\ d.kind = "object"
       /\ \/ d.project.t = "missing"
          \/ d.agents.t = "missing"
          \/ /\ d.agents.t = "val"
             /\ \E i \in 1..Len(d.agents.v) : UnitViolation(d.agents.v[i].spec)

\* C8: a load of an existing document with a structural violation fails
\* with the configuration error (ValueError) and with no other error kind.
C8_ViolationIsConfigurationError ==
    (LastOp = "load" /\ ConfigPathExists(layout, doc) /\ StructuralViolation(doc)) =>
        (loaded.kind = "raised" /\ loaded.exc = "ValueError")

(***************************************************************************)
(* Properties of the composer.                                             *)
(***************************************************************************)
\* The configuration create_root_agent composes from, when discovery and
\* loading succeed.
ProjectLoads ==
    /\ discover_project_root_exc(env, cwd) = ""
    /\ load_project_config(layout, doc).kind = "returned"

LoadedConfig == load_project_config(layout, doc).val

\* C1: create_root_agent never raises: in every project state and
\* environment the call returns a unit.
C1_CreateRootAgentNeverRaises ==
    result.call = "create_root_agent" => result.kind = "returned"

\* C2: for every configuration that contains a coordinator entry, the root
\* create_root_agent returns is the coordinator unit akashic_coordinator,
\* not the fallback unit.
C2_CoordinatorEntryGivesCoordinator ==
    (result.call = "create_root_agent" /\ ProjectLoads
        /\ "coordinator" \in AgentNames(LoadedConfig)) =>
        (result.kind = "returned" /\ result.val.name = "akashic_coordinator")

\* The units other than the coordinator whose construction fails: the
\* factory yields no unit for them.
FailingUnits(config) ==
    {i \in 1..Len(config.agents) :
        /\ config.agents[i].name # "coordinator"
        /\ ~create_agent(AgentFactory(config), config.agents[i].name,
                         config.agents[i].spec, tmpl, ext).some}

\* C3: with N configured units, the coordinator among them, and K units
\* whose construction fails, create_agent_hierarchy returns a coordinator
\* with exactly N-1-K delegates and raises nothing.
C3_DelegateCount ==
    (result.call = "create_agent_hierarchy"
        /\ "coordinator" \in AgentNames(LoadedConfig)) =>
        /\ result.kind = "returned"
        /\ Len(result.val.sub_agents)
            = Len(LoadedConfig.agents) - 1 - Cardinality(FailingUnits(LoadedConfig))

\* C4: for a configuration without a coordinator entry the load succeeds,
\* create_agent_hierarchy fails with a ValueError, and create_root_agent
\* returns the fallback unit, which has no tools and no delegates.
C4_NoCoordinatorGivesFallback ==
    (result.call = "create_root_agent"
        /\ discover_project_root_exc(env, cwd) = ""
        /\ ConfigPathExists(layout, doc)
        /\ doc.kind = "object"
        /\ ParseExc(doc) = ""
        /\ "coordinator" \notin AgentNames(LoadedConfig)) =>
        /\ result.kind = "returned"
        /\ result.caught = "ValueError"
        /\ result.val.name = "akashic_records_fallback"
        /\ result.val.tools = <<>>
        /\ result.val.sub_agents = <<>>

\* C5: constructing an AkashicCoordinator from a configuration that
\* load_project_config returned succeeds, and resolving the coordinator's
\* prompt template on it yields a text.
C5_CoordinatorConstructs ==
    result.call = "test_agent_creation" =>
        /\ result.kind = "returned"
        /\ result.caught = ""
        /\ ("coordinator" \in AgentNames(LoadedConfig)
                => result.val.instruction.src # "")

(***************************************************************************)
(* Properties of the directory rule index (SpecIndex).                     *)
(***************************************************************************)
\* The last call read a directory whose descriptor the call before it
\* created.
ReadRightAfterCreation ==
    /\ Len(calls) >= 2
    /\ calls[Len(calls)][1] = "read"
    /\ calls[Len(calls) - 1] = <<"update", calls[Len(calls)][2], "created">>

\* C9: after update_readme_after_file_operation(dir, 'create', info) on a
\* directory without a descriptor, an immediately following
\* read_directory_rules(dir) returns a record that reflects the descriptor
\* just created (has_readme true, purpose and rules of the new file),
\* whatever calls were made on the index before, including a
\* read_directory_rules(dir) cached before the descriptor existed.
C9_ReadAfterCreateIsFresh ==
    ReadRightAfterCreation =>
        /\ last.rec.has_readme
        /\ last.rec = compute_rules(last.dir, readme, rulemd)

C11_ValidatorNeverThrows ==
    report.call # "none" => report.exc = ""

\* C12: in every result of the validator, validity holds exactly when the
\* errors list is empty, and the health report's status is 'healthy'
\* exactly when validity holds and 'needs_attention' otherwise; warnings
\* alone never make a project invalid.
C12_ValidIffNoErrors ==
    (report.call # "none" /\ report.exc = "") =>
        /\ report.valid <=> (report.errors = <<>>)
        /\ report.call = "generate_health_report" =>
                report.status = IF report.valid THEN "healthy" ELSE "needs_attention"

\* A health report with warnings and no error: valid and healthy.
C12_Witness ==
    /\ report.call = "generate_health_report"
    /\ report.exc = ""
    /\ report.errors = <<>>
    /\ Len(report.warnings) > 3
    /\ report.valid
    /\ report.status = "healthy"

\* The document fails pydantic's validation.
SchemaViolation(d) ==
    d.kind = "object" /\ ValidateBuildExc(d) = "ValidationError"

\* The document builds a configuration.
BuildsConfig(d) == d.kind = "object" /\ ValidateBuildExc(d) = ""

\* What the prompt-template, target-directory and environment-file checks
\* contribute.
OtherFindings ==
    validate_prompts(layout, side) \o validate_directory_structure(layout, doc, side)
        \o validate_environment(side)

IoFailed ==
    /\ last.call = "update"
    /\ \/ last.io = "read_fails" /\ last.had_readme
       \/ last.io = "write_fails" /\ (last.had_readme \/ last.operation = "create")

\* C13: every update_readme_after_file_operation call degrades silently on
\* I/O failure: whatever the operation, a failure to read or write the
\* descriptor is not raised and the result is the unchanged result (updated
\* false, created_readme false, no changes listed).
C13_UpdateDegradesSilently ==
    IoFailed =>
        /\ last.exc = ""
        /\ last.res = UpdateResult(FALSE, FALSE, <<>>)

(***************************************************************************)
(* Properties of the factory and the prompt resolvers.                     *)
(***************************************************************************)
\* The configuration of the unit the last create_agent call was given.
CreatedSpec == AgentsGet(LoadedConfig, result.arg[1])

\* C14: AgentFactory.create_agent never raises: a type outside the registry
\* gives None, an exception inside a known creator gives None, and the
\* result for a unit is the same whichever other units fail.
C14_CreateAgentNeverRaises ==
    result.call = "create_agent" =>
        /\ result.kind = "returned"
        /\ CreatedSpec.type \notin agent_creators => result.val = NoUnit
        /\ result.caught # "" => result.val = NoUnit
        /\ \A fails \in SUBSET RejectableUnits :
              (result.arg[1] \in fails <=> result.arg[1] \in ext) =>
                  create_agent(AgentFactory(LoadedConfig), result.arg[1],
                               CreatedSpec, tmpl, fails).unit = result.val

\* A creator raised inside create_agent and the call returned None.
C14_Witness ==
    /\ result.call = "create_agent"
    /\ result.kind = "returned"
    /\ result.caught = "RuntimeError"
    /\ result.val = NoUnit

\* The reference rule of prompt resolution: the text under .arclient when
\* that file exists, else the text at the standalone path when that exists,
\* else None; None too for no reference and for a failed read.
ReferenceRule(template_path, t) ==
    IF template_path \in {None, ""} THEN None
    ELSE IF t.arc = "readable" THEN "arclient_text"
    ELSE IF t.arc = "unreadable" THEN None
    ELSE IF t.abs = "readable" THEN "standalone_text"
    ELSE None

\* C15: both prompt resolvers return what the reference rule gives, never
\* raise, and never return text of their own making.
C15_PromptResolutionIsReferenceRule ==
    result.call = "load_prompt_template" =>
        /\ result.kind = "returned"
        /\ result.val.instruction = Instruction(ReferenceRule(result.arg[2], tmpl), <<>>)

\* C16: the root create_root_agent returns has no tools of its own, and the
\* coordinator create_agent_hierarchy builds has none either.
C16_RootHasNoTools ==
    /\ (result.call = "create_root_agent" /\ result.kind = "returned") =>
            result.val.tools = <<>>
    /\ (ProjectLoads /\ "coordinator" \in AgentNames(LoadedConfig)) =>
            create_agent_hierarchy(AkashicCoordinator(LoadedConfig, "/proj"),
                                   tmpl, ext).tools = <<>>

\* create_root_agent returned a root for a project with a coordinator entry
\* whose configuration enables the filesystem tools.
C16_Witness ==
    /\ result.call = "create_root_agent"
    /\ result.kind = "returned"
    /\ result.val.name # ""
    /\ ProjectLoads
    /\ "coordinator" \in AgentNames(LoadedConfig)
    /\ LoadedConfig.mcp_tools.filesystem.hasEnabled
    /\ LoadedConfig.mcp_tools.filesystem.enabled

\* C19: a unit the factory builds carries a filesystem binding exactly when
\* its own tools request mcp_filesystem and the project enables the family.
C19_BindingIffRequestedAndEnabled ==
    (result.call = "create_agent" /\ result.kind = "returned" /\ result.val # NoUnit) =>
        (result.val.tools # <<>> <=>
            /\ \E i \in 1..Len(CreatedSpec.tools) : CreatedSpec.tools[i] = "mcp_filesystem"
            /\ LoadedConfig.mcp_tools.filesystem.enabled)

\* C20: with the filesystem family enabled and no allow-list configured, the
\* binding a unit gets carries the default operations.
C20_DefaultOperationsWithoutAllowList ==
    (/\ result.call = "create_agent"
     /\ result.kind = "returned"
     /\ result.val # NoUnit
     /\ LoadedConfig.mcp_tools.filesystem.enabled
     /\ ~LoadedConfig.mcp_tools.filesystem.hasTools) =>
        /\ Len(result.val.tools) = 1
        /\ result.val.tools[1].tool_filter = DefaultAllowedTools

(***************************************************************************)
(* Properties of file placement.                                           *)
(***************************************************************************)
\* The shape four digits, -, two digits, -, two digits, _, any text, .md.
HasDatedShape(filename) ==
    /\ Len(filename) >= 14
    /\ \A k \in {1, 2, 3, 4, 6, 7, 9, 10} : IsDigit(filename[k])
    /\ filename[5] = "-"
    /\ filename[8] = "-"
    /\ filename[11] = "_"
    /\ SubSeq(filename, Len(filename) - 2, Len(filename)) = Md

\* C17: for meeting_minutes a name of the dated shape passes and leaves the
\* confidence at 1.0, every other name adds an issue and lowers the
\* confidence below 1.0; for another content type every name gives the
\* result every other name gives.
C17_NameCheckedByFormatOnly ==
    last.call = "validate" =>
        /\ (last.content_type = "meeting_minutes" /\ HasDatedShape(last.filename)) =>
                (last.val.issues = <<>> /\ last.val.confidence = 100)
        /\ (last.content_type = "meeting_minutes" /\ ~HasDatedShape(last.filename)) =>
                (last.val.issues # <<>> /\ last.val.confidence < 100)
        /\ last.content_type # "meeting_minutes" =>
                (last.val.issues = <<>> /\ last.val.confidence = 100)

(***************************************************************************)
(* Properties of the cache under interleaved calls (SpecCache).            *)
(***************************************************************************)
\* The log entries of a successful mutation of an existing descriptor.
Mutations(dir) == {<<"update", dir, operation>> : operation \in {"create", "delete", "move"}}

MutatedBefore(log, dir) == \E i \in 1..Len(log) : log[i] \in Mutations(dir)

\* C21: in every order of lookups and mutations, a successful mutation of
\* the existing descriptor of a directory leaves that directory without a
\* cache entry and the entries of the other directories as they were, and
\* every lookup of the directory that starts after such a mutation returns
\* the record of the descriptor as it then stands.
C21_InvalidationVisibleToLaterLookups ==
    [][/\ (last'.call = "update" /\ calls'[Len(calls')] \in Mutations(last'.dir)) =>
            /\ ~cache'[last'.dir].hit
            /\ \A other \in Dirs \ {last'.dir} : cache'[other] = cache[other]
       /\ (last'.call = "read" /\ MutatedBefore(calls, last'.dir)) =>
            last'.rec = compute_rules(last'.dir, readme, rulemd)]_vars

\* A lookup cached the record of a directory, a mutation of its descriptor
\* succeeded, and the lookup that follows returned (and cached again) the
\* record of the mutated descriptor, the other directory never looked up.
C21_Witness ==
    /\ Len(calls) = 3
    /\ calls[1] = <<"read", last.dir, "">>
    /\ calls[2] \in Mutations(last.dir)
    /\ calls[3] = <<"read", last.dir, "">>
    /\ last.rec = compute_rules(last.dir, readme, rulemd)
    /\ cache[last.dir].hit
    /\ \E d \in Dirs \ {last.dir} : ~cache[d].hit

\* The listing lines of a descriptor that reference a file.
ListingLines(lines, filename) == {i \in 1..Len(lines) : References(lines[i], filename)}

\* C22: after a move written to an existing descriptor the file is
\* referenced by exactly one listing line: the lines that referenced it
\* before are gone and one new line is there.
C22_MoveIsRemoveThenReinsert ==
    (/\ last.call = "update"
     /\ last.operation = "move"
     /\ last.had_readme
     /\ last.res.updated) =>
        Cardinality(ListingLines(readme[last.dir].lines, last.file)) = 1

(***************************************************************************)
(* Properties of the routing handle and the catalog (SpecRouting).         *)
(***************************************************************************)
\* C23: in every sequence of add_model and get_router calls the handle
\* get_router leaves is built from the catalog as it stands, a get_router
\* call with a handle at hand returns that handle and builds none, and
\* add_model appends one backend whose name is available afterwards with
\* every name that was available before.
C23_RouterFollowsCatalog ==
    [][/\ router'.built => router'.model_list = models'
       /\ (router.built /\ models' = models) => router' = router
       /\ router'.builds <= 1
       /\ models' # models =>
            /\ \E model_config \in AddedModels :
                    /\ models' = Append(models, model_config)
                    /\ is_model_available(models', model_config.model_name)
            /\ AvailableModels(models) \subseteq AvailableModels(models')]_vars

\* A handle built after two add_model calls holds both added backends.
C23_Witness ==
    /\ router.built
    /\ router.builds = 1
    /\ {"local", "mistral"} \subseteq AvailableModels(router.model_list)
    /\ "gpt-4o" \in AvailableModels(router.model_list)

RECURSIVE FallbackReach(_, _, _)
\* The backends reached from the set from in at most n fallback steps.
FallbackReach(table, from, n) ==
    IF n = 0 THEN {}
    ELSE LET next == UNION {UNION {{table[i][2][j] : j \in 1..Len(table[i][2])} :
                                     i \in {k \in 1..Len(table) : table[k][1] = b}} :
                            b \in from}
         IN  next \cup FallbackReach(table, next, n - 1)

\* C24: in the default configuration no backend is reached from itself by
\* following fallback chains.
C24_DefaultFallbacksAcyclic ==
    models = get_default_configs =>
        \A backend \in AvailableModels(models) :
            backend \notin FallbackReach(default_fallbacks, {backend}, Len(default_fallbacks))

(***************************************************************************)
(* Properties of the order and coverage of the validator's checks.         *)
(***************************************************************************)
\* C25: validate_project reports the warnings of all four checks in the
\* order configuration, prompts, target directories, environment, those of
\* a later check whatever an earlier check found, a missing configuration
\* directory or file included.
C25_AllChecksInOrder ==
    (report.call = "validate_project" /\ report.exc = "") =>
        report.warnings =
            (IF ArclientPathExists(layout)
             THEN validate_config(layout, doc).warnings ELSE <<>>)
            \o validate_prompts(layout, side)
            \o validate_directory_structure(layout, doc, side)
            \o validate_environment(side)

\* The units of the document whose type is meeting_minutes and that name
\* target directories.
DirectoryScopedUnits ==
    IF doc.kind = "object" /\ doc.agents.t = "val"
    THEN {i \in 1..Len(doc.agents.v) :
            /\ doc.agents.v[i].spec.shape = "mapping"
            /\ doc.agents.v[i].spec.type = Val("meeting_minutes")
            /\ doc.agents.v[i].spec.target_directories.t = "val"}
    ELSE {}

\* C27: for every unit of type meeting_minutes, whatever its name, each
\* target directory that does not exist, or has no README.md, is reported
\* in a warning.
C27_EveryDirectoryScopedUnitChecked ==
    (report.call = "validate_project" /\ report.exc = "" /\ ArclientPathExists(layout)) =>
        \A i \in DirectoryScopedUnits :
            LET target_dirs == doc.agents.v[i].spec.target_directories.v
            IN  \A j \in 1..Len(target_dirs) :
                    /\ side.targets[target_dirs[j]] = "missing" =>
                            InSeq("Target directory does not exist: " \o target_dirs[j],
                                  report.warnings)
                    /\ side.targets[target_dirs[j]] = "no_readme" =>
                            InSeq("Target directory missing README.md: " \o target_dirs[j],
                                  report.warnings)

\* C28: the name get_model_for_agent returns is a model_name of the catalog
\* it was asked on, for every catalog, agent type and preference.
C28_ReturnedModelIsAvailable ==
    picked.call => is_model_available(models, picked.val)

(***************************************************************************)
(* Properties of placement against declared file types (SpecIndex).        *)
(***************************************************************************)
RECURSIVE DeclaredFrom(_, _, _)
\* The bullets under the heading "Allowed file types" of a descriptor.
DeclaredFrom(lines, i, in_section) ==
    IF i > Len(lines) THEN {}
    ELSE IF lines[i].k = "h2" /\ lines[i].x = "Allowed file types"
         THEN DeclaredFrom(lines, i + 1, TRUE)
    ELSE IF StartsWithHash(lines[i]) THEN DeclaredFrom(lines, i + 1, FALSE)
    ELSE IF in_section /\ lines[i].k = "bullet"
         THEN {lines[i].x} \cup DeclaredFrom(lines, i + 1, in_section)
    ELSE DeclaredFrom(lines, i + 1, in_section)

\* The content types the descriptor of a directory declares as allowed.
DeclaredTypes(dir) ==
    IF readme[dir].exists THEN DeclaredFrom(readme[dir].lines, 1, FALSE) ELSE {}

\* C26: a content type outside the allowed types a directory declares makes
\* validate_file_placement return valid false with a confidence below 0.7;
\* below that threshold alternative_locations holds the existing project
\* directories the content-type table names, at or above it none.
C26_DeclaredTypesRestrictPlacement ==
    last.call = "validate" =>
        /\ (DeclaredTypes(last.dir) # {} /\ last.content_type \notin DeclaredTypes(last.dir)) =>
                (~last.val.valid /\ last.val.confidence < 70)
        /\ last.val.confidence < 70 =>
                last.val.alternative_locations =
                    suggest_alternative_locations(last.content_type)
        /\ last.val.confidence >= 70 => last.val.alternative_locations = <<>>

(***************************************************************************)
(* Properties that relate the validator and the composer.                  *)
(***************************************************************************)
\* C29: a project generate_health_report calls healthy is one the composer
\* does not give up on for a reason of its configuration: the configuration
\* loads and create_agent_hierarchy finds its coordinator entry.
C29_HealthyProjectComposes ==
    (report.call = "generate_health_report" /\ report.exc = ""
        /\ report.status = "healthy") =>
        /\ load_project_config(layout, doc).kind = "returned"
        /\ "coordinator" \in AgentNames(load_project_config(layout, doc).val)
        /\ create_agent_hierarchy_exc(
                AkashicCoordinator(load_project_config(layout, doc).val, "/proj"))
             # "ValueError"

\* The coordinator create_agent_hierarchy builds for the loaded configuration.
BuiltCoordinator ==
    create_agent_hierarchy(AkashicCoordinator(LoadedConfig, "/proj"), tmpl, ext)

\* C30: when the coordinator's instruction is the generated default prompt,
\* the units the prompt lists are the delegates attached to the coordinator,
\* also when the construction of some unit fails.
C30_ListedUnitsAreDelegates ==
    (/\ ProjectLoads
     /\ "coordinator" \in AgentNames(LoadedConfig)
     /\ BuiltCoordinator.instruction.src = "default_coordinator") =>
        {BuiltCoordinator.instruction.listed[i] :
            i \in 1..Len(BuiltCoordinator.instruction.listed)}
        = {BuiltCoordinator.sub_agents[i].name :
            i \in 1..Len(BuiltCoordinator.sub_agents)}

====
